---------------------------- MODULE Spec2Model ----------------------------
(***************************************************************************)
(* Webhook event-processing pipeline of AsanaConnector3Claude.             *)
(*                                                                         *)
(* The repository holds two deployable Flask applications:                 *)
(*   "server" : src/server.py (receive_webhook) with the classifier and    *)
(*              orchestrator of src/repair_workflow.py;                     *)
(*   "main"   : src/main.py (handle_webhook) with its own classifier and   *)
(*              orchestrator.                                               *)
(* The variable impl says which of the two is running.                     *)
(*                                                                         *)
(* Modelling conventions                                                   *)
(*  - A text (task name, notes, field name, comment) is a string; lower(), *)
(*    strip(), split() and `needle in text` work on its characters.  An    *)
(*    emoji is written as a name in parentheses, "(check)" for U+2705.     *)
(*  - A raw request body is [syntax, events]: the JSON text of an          *)
(*    envelope, or text that is not JSON.  request.json parses it.         *)
(*  - hexdigest(HMAC-SHA256(key, raw)) is the ideal MAC [ascii, key, msg]: *)
(*    two digests are equal exactly when key and message are equal.        *)
(*  - Both applications serve every request on a thread of its own         *)
(*    (app.run).  A handler runs from one remote call (Asana API, SMTP) to *)
(*    the next in one step; between two of its calls the other handlers    *)
(*    may take steps.  A remote call returns or raises.                    *)
(***************************************************************************)
EXTENDS Integers, Sequences, FiniteSets, TLC

VARIABLES impl,            \* which application is deployed
          WEBHOOK_SECRET,  \* the module-level dict WEBHOOK_SECRET
          remote,          \* the upstream platform and the mail transport
          delivered,       \* number of requests received so far
          phase,           \* "idle" | "responded"
          last,            \* the request just answered and its response
          probe,           \* the latest direct call of a helper function, with its result
          inflight,        \* the requests being handled, one per thread, and the failed calls so far
          verifying        \* a signed delivery whose signature check runs beside handshakes

vars == <<impl, WEBHOOK_SECRET, remote, delivered, phase, last, probe, inflight, verifying>>

(***************************** bounds **************************************)
MaxEvents == 2
MaxFaults == 1
MaxRequests == 2
MaxFields == 2
MaxSwitches == 1
MaxComments == 4

(***************************** texts ***************************************)
\* str.lower() on one character
LowerOf(w) ==
  CASE w = "A" -> "a" [] w = "B" -> "b" [] w = "C" -> "c" [] w = "D" -> "d"
    [] w = "E" -> "e" [] w = "F" -> "f" [] w = "G" -> "g" [] w = "H" -> "h"
    [] w = "I" -> "i" [] w = "J" -> "j" [] w = "K" -> "k" [] w = "L" -> "l"
    [] w = "M" -> "m" [] w = "N" -> "n" [] w = "O" -> "o" [] w = "P" -> "p"
    [] w = "Q" -> "q" [] w = "R" -> "r" [] w = "S" -> "s" [] w = "T" -> "t"
    [] w = "U" -> "u" [] w = "V" -> "v" [] w = "W" -> "w" [] w = "X" -> "x"
    [] w = "Y" -> "y" [] w = "Z" -> "z"
    [] OTHER -> w

\* str.lower()
RECURSIVE Lower(_)
Lower(t) == IF t = "" THEN "" ELSE LowerOf(Head(t)) \o Lower(Tail(t))

\* Python: needle in text
Contains(text, needle) ==
  \E i \in 0..(Len(text) - Len(needle)) : SubSeq(text, i + 1, i + Len(needle)) = needle

IsSpace(c) == c \in {" ", "\t", "\n", "\r", "\f"}

RECURSIVE LStrip(_)
LStrip(t) == IF t # "" /\ IsSpace(Head(t)) THEN LStrip(Tail(t)) ELSE t

RECURSIVE RStrip(_)
RStrip(t) ==
  IF t # "" /\ IsSpace(SubSeq(t, Len(t), Len(t))) THEN RStrip(SubSeq(t, 1, Len(t) - 1))
  ELSE t

\* str.strip()
Strip(t) == RStrip(LStrip(t))

\* The first word of a text that starts with one, and what follows it
RECURSIVE WordAt(_)
WordAt(t) == IF t = "" \/ IsSpace(Head(t)) THEN "" ELSE Head(t) \o WordAt(Tail(t))

\* str.split(): the words between runs of whitespace
RECURSIVE Split(_)
Split(t) ==
  IF LStrip(t) = "" THEN << >>
  ELSE <<WordAt(LStrip(t))>>
         \o Split(SubSeq(LStrip(t), Len(WordAt(LStrip(t))) + 1, Len(LStrip(t))))

\* sep.join(parts)
RECURSIVE Join(_, _)
Join(sep, parts) ==
  IF parts = << >> THEN ""
  ELSE IF Len(parts) = 1 THEN parts[1]
  ELSE parts[1] \o sep \o Join(sep, Tail(parts))

EmptyDict == [k \in {} |-> ""]

\* Python's None (a value that is no text of the program), and the truth value of
\* a str-or-None
None == "<None>"
Truthy(v) == v # None /\ v # ""

(***************************** configuration *******************************)
REPAIR_PROJECT_ID == "P1"
OTHER_PROJECT_ID == "P2"
\* EMAIL_USER and EMAIL_PASSWORD are set in the deployment
EMAIL_CONFIGURED == TRUE

CHECK == "(check)"      \* the mark U+2705
CROSS == "(cross)"      \* the mark U+274C
WARNING == "(warning)"  \* the sign U+26A0

REPAIR_CATEGORIES(category) ==
  CASE category = "Appliance" ->
         [emoji |-> "(plug)",
          subtypes |-> <<"Washer not working", "Dryer not working",
                         "Dishwasher not working", "Stove/Oven issues",
                         "Refrigerator problems">>]
    [] category = "Electrical" ->
         [emoji |-> "(bolt)",
          subtypes |-> <<"Broken electrical outlet", "Light switch not working",
                         "Flickering lights", "Electrical panel issue">>]
    [] category = "Plumbing" ->
         [emoji |-> "(shower)",
          subtypes |-> <<"Leaky faucet", "Clogged drain", "Toilet issues", "Pipe leak">>]
    [] category = "HVAC" ->
         [emoji |-> "(snow)",
          subtypes |-> <<"No heat", "No cooling", "Thermostat issues", "Strange noises">>]
    [] category = "Structural" ->
         [emoji |-> "(house)",
          subtypes |-> <<"Wall damage", "Floor issues", "Door/window problems",
                         "Ceiling leak">>]
    [] category = "Other" ->
         [emoji |-> "(wrench)",
          subtypes |-> <<"Other maintenance issue">>]
    [] OTHER -> [emoji |-> "", subtypes |-> << >>]

CategoryKeys == {"Appliance", "Electrical", "Plumbing", "HVAC", "Structural", "Other"}

(***************************** the upstream platform ***********************)
Gids == {"T1", "T2", "T3"}

EnumField(name, value) ==
  [name |-> name, type |-> "enum", enum_value |-> value, text_value |-> None,
   number_value |-> None, enum_values |-> << >>]

TextField(name, value) ==
  [name |-> name, type |-> "text", enum_value |-> None, text_value |-> value,
   number_value |-> None, enum_values |-> << >>]

\* A number field; value: the number as str() writes it, or None
NumberField(name, value) ==
  [name |-> name, type |-> "number", enum_value |-> None, text_value |-> None,
   number_value |-> value, enum_values |-> << >>]

\* A multi-select field; values: the names of the chosen options
MultiEnumField(name, values) ==
  [name |-> name, type |-> "multi_enum", enum_value |-> None, text_value |-> None,
   number_value |-> None, enum_values |-> values]

\* What the form submitted for each task; the name is kept in remote.name.
\* T3 was submitted without the name of the tenant: the text field is there, its
\* text_value is null.
TaskData(gid) ==
  CASE gid = "T1" ->
         [notes |-> "leak",
          projects |-> <<REPAIR_PROJECT_ID>>,
          custom_fields |-> << EnumField("Issue Category", "Plumbing"),
                               EnumField("Urgency Level", "Emergency") >>]
    [] gid = "T2" ->
         [notes |-> "dripping",
          projects |-> <<OTHER_PROJECT_ID>>,
          custom_fields |-> << EnumField("Issue Category", "Plumbing"),
                               EnumField("Urgency Level", "Standard") >>]
    [] gid = "T3" ->
         [notes |-> "",
          projects |-> <<REPAIR_PROJECT_ID>>,
          custom_fields |-> << EnumField("Issue Category", "Electrical"),
                               EnumField("Urgency Level", "Standard"),
                               TextField("Tenant Name", None) >>]

InitialName(gid) ==
  CASE gid = "T1" -> "Kitchen sink"
    [] gid = "T2" -> "Hallway tap"
    [] gid = "T3" -> "Bathroom fan"

RemoteInit ==
  [name |-> [g \in Gids |-> InitialName(g)],
   stories |-> [g \in Gids |-> << >>],
   subtasks |-> [g \in Gids |-> << >>],
   outbox |-> << >>]

\* The task record client.tasks.find_by_id returns
TaskRecord(rem, gid) ==
  [gid |-> gid,
   name |-> rem.name[gid],
   notes |-> TaskData(gid).notes,
   projects |-> TaskData(gid).projects,
   custom_fields |-> TaskData(gid).custom_fields]

\* A record of the list client.tasks.find_all returns: the compact form of a task
\* (no opt_fields are asked for), without projects, notes and custom fields
CompactRecord(rem, gid) == [gid |-> gid, name |-> rem.name[gid], resource_type |-> "task"]

\* client.tasks.find_all({'project': REPAIR_PROJECT_ID, ...}): the gids of the
\* tasks of the project, in the order of the platform
RECURSIVE InOrder(_)
InOrder(S) ==
  IF S = {} THEN << >>
  ELSE <<CHOOSE g \in S : \A h \in S : g = h \/ g = "T1">>
         \o InOrder(S \ {CHOOSE g \in S : \A h \in S : g = h \/ g = "T1"})

ProjectTasks ==
  InOrder({g \in Gids : \E i \in DOMAIN TaskData(g).projects :
                           TaskData(g).projects[i] = REPAIR_PROJECT_ID})

(***************************** remote calls ********************************)
\* A context threads a handler's view through a request: remote is the platform,
\* calls the calls made so far with their results, by the function running.
\* A handler is evaluated from its start each time its thread runs: the calls of
\* script are the ones it made before (their results are read from script, their
\* effects are in remote already), then it makes `budget` calls on the platform
\* and stops at the next one (blocked).  live: the call made last was made on the
\* platform now.
Whole == 1000

Context(rem, by, script, budget) ==
  [remote |-> rem, calls |-> << >>, by |-> by, script |-> script, budget |-> budget,
   blocked |-> FALSE, live |-> FALSE]

\* The calls that return what the platform holds
ReadOps == {"tasks.find_by_id", "stories.find_by_task", "tasks.find_all"}

NoSnapshot == [name |-> << >>, stories |-> << >>, subtasks |-> << >>, outbox |-> << >>]

Ordinal(calls, op) == 1 + Cardinality({i \in DOMAIN calls : calls[i].op = op})

Fails(ctx, op, F) == <<op, Ordinal(ctx.calls, op)>> \in F

\* What the platform says when a call fails; the text is the platform's
ErrorText == "remote call failed"

\* A note of the handler itself in the list of calls (no remote call)
Log(ctx, op, gid, arg, ok) ==
  IF ctx.blocked THEN ctx
  ELSE IF Len(ctx.calls) < Len(ctx.script)
    THEN [ctx EXCEPT !.calls = Append(@, ctx.script[Len(ctx.calls) + 1])]
  ELSE [ctx EXCEPT !.calls = Append(@, [op |-> op, by |-> ctx.by, gid |-> gid,
                                        arg |-> arg, ok |-> ok, seen |-> NoSnapshot])]

Running(ctx, function) == [ctx EXCEPT !.by = function]

\* One remote call: it is logged with what the platform held when it was made,
\* and fails when the fault plan says so
Call(ctx, op, gid, arg, F) ==
  IF ctx.blocked THEN ctx
  ELSE IF Len(ctx.calls) < Len(ctx.script)
    THEN [ctx EXCEPT !.calls = Append(@, ctx.script[Len(ctx.calls) + 1]), !.live = FALSE]
  ELSE IF ctx.budget = 0 THEN [ctx EXCEPT !.blocked = TRUE, !.live = FALSE]
  ELSE [ctx EXCEPT !.calls = Append(@, [op |-> op, by |-> ctx.by, gid |-> gid,
                                        arg |-> arg, ok |-> ~Fails(ctx, op, F),
                                        seen |-> IF op \in ReadOps THEN ctx.remote
                                                 ELSE NoSnapshot]),
                   !.budget = @ - 1, !.live = TRUE]

\* Did the call made last return (TRUE) or raise (FALSE)?
Ok(ctx) == ctx.blocked \/ ctx.calls[Len(ctx.calls)].ok

\* What the platform held when the read made last was made
Returned(ctx) == IF ctx.blocked THEN ctx.remote ELSE ctx.calls[Len(ctx.calls)].seen

\* The effect of the call made last on the platform
Effect(ctx, rem) == IF ctx.live THEN [ctx EXCEPT !.remote = rem] ELSE ctx


\* A slip of the creation: an item the task already has is not created again
create_subtask_if_absent(rem, gid, name) ==
  IF \E k \in DOMAIN rem.subtasks[gid] : rem.subtasks[gid][k] = name THEN rem
  ELSE [rem EXCEPT !.subtasks[gid] = Append(@, name)]

\* client.tasks.create_subtask_for_task(parent_task_gid, {'name': ...}) on the platform
create_subtask_for_task(rem, gid, name) == [rem EXCEPT !.subtasks[gid] = Append(@, name)]

(***************************** src/repair_workflow.py **********************)
\* get_task_field_value of repair_workflow.py: the first field whose name EQUALS
\* field_name decides; an enum without a value gives None
RECURSIVE rw_get_task_field_value_in(_, _)
rw_get_task_field_value_in(fields, field_name) ==
  IF fields = << >> THEN None
  ELSE LET field == Head(fields)
       IN  IF field.name # field_name
             THEN rw_get_task_field_value_in(Tail(fields), field_name)
           ELSE IF field.type = "enum" /\ Truthy(field.enum_value) THEN field.enum_value
           ELSE IF field.type = "text" THEN field.text_value
           ELSE IF field.type = "number" THEN field.number_value
           ELSE None

rw_get_task_field_value(task, field_name) ==
  rw_get_task_field_value_in(task.custom_fields, field_name)

AnyFieldNamed(task, tokens) ==
  \E i \in DOMAIN task.custom_fields :
     \E k \in tokens : Contains(Lower(task.custom_fields[i].name), k)

repair_keywords ==
  <<"repair", "fix", "broken", "issue", "not working", "problem", "maintenance">>

\* is_repair_form_task of repair_workflow.py: field names first, keywords next.
\* It never looks at task.projects.
rw_is_repair_form_task(task) ==
  LET has_category == AnyFieldNamed(task, {"category", "issue"})
      has_urgency == AnyFieldNamed(task, {"urgency", "priority"})
  IN  \/ has_category /\ has_urgency
      \/ \E k \in DOMAIN repair_keywords :
            \/ Contains(Lower(task.name), repair_keywords[k])
            \/ Contains(Lower(task.notes), repair_keywords[k])

FieldValue(field, old) ==
  IF field.type = "enum" /\ Truthy(field.enum_value) THEN field.enum_value
  ELSE IF field.type = "text" THEN field.text_value
  ELSE old

\* str(e) of the AttributeError of None.split()
SplitErrorText == "'NoneType' object has no attribute 'split'"

\* One pass of the loop of extract_repair_details over a custom field.  On a text
\* field without a value whose name holds "name", field.get('text_value', '') is
\* None and .split() raises: raised
ExtractField(details, field) ==
  LET n == Lower(field.name)
      has(k) == Contains(n, k)
      txt == field.type = "text"
      name_parts == Split(field.text_value)
  IN  IF has("category") \/ has("issue")
        THEN [details EXCEPT !.issue_category = FieldValue(field, @)]
      ELSE IF has("urgency") \/ has("priority")
        THEN [details EXCEPT !.urgency_level = FieldValue(field, @)]
      ELSE IF has("name") /\ ~Truthy(details.first_name)
        THEN IF txt /\ field.text_value = None
               THEN [details EXCEPT !.raised = TRUE]
             ELSE IF txt /\ name_parts # << >>
               THEN [details EXCEPT
                       !.first_name = name_parts[1],
                       !.last_name = IF Len(name_parts) > 1
                                       THEN Join(" ", Tail(name_parts)) ELSE @]
               ELSE details
      ELSE IF has("email") /\ ~Truthy(details.email)
        THEN IF txt THEN [details EXCEPT !.email = field.text_value] ELSE details
      ELSE IF has("phone") /\ ~Truthy(details.phone)
        THEN IF txt THEN [details EXCEPT !.phone = field.text_value] ELSE details
      ELSE IF has("address") /\ ~Truthy(details.address)
        THEN IF txt THEN [details EXCEPT !.address = field.text_value] ELSE details
      ELSE IF has("unit") /\ ~Truthy(details.unit_number)
        THEN IF txt THEN [details EXCEPT !.unit_number = field.text_value] ELSE details
      ELSE details

RECURSIVE ExtractFields(_, _)
ExtractFields(details, fields) ==
  IF fields = << >> \/ details.raised THEN details
  ELSE ExtractFields(ExtractField(details, Head(fields)), Tail(fields))

fallback_categories == <<"Plumbing", "Electrical", "Appliance", "HVAC", "Structural">>

extract_repair_details(task) ==
  LET d0 == [first_name |-> None, last_name |-> None, email |-> None,
             phone |-> None, address |-> None, unit_number |-> None,
             urgency_level |-> None, issue_category |-> None,
             specific_issue |-> None, description |-> task.notes,
             raised |-> FALSE]
      hits == {k \in DOMAIN fallback_categories :
                 \/ Contains(Lower(task.name), Lower(fallback_categories[k]))
                 \/ Contains(Lower(task.notes), Lower(fallback_categories[k]))}
      first == CHOOSE k \in hits : \A h \in hits : k <= h
      \* the fallback values for what the fields did not give
      fallbacks(d1) ==
        [d1 EXCEPT
           !.issue_category = IF Truthy(@) THEN @
                              ELSE IF hits # {} THEN fallback_categories[first]
                              ELSE "Other",
           !.urgency_level = IF Truthy(@) THEN @ ELSE "Standard",
           !.first_name = IF Truthy(@) THEN @ ELSE "Tenant",
           !.address = IF Truthy(@) THEN @ ELSE "Property"]
  IN  fallbacks(ExtractFields(d0, task.custom_fields))

\* REPAIR_CATEGORIES.get(category, REPAIR_CATEGORIES['Other'])
rw_category_info(category) ==
  IF category \in CategoryKeys THEN REPAIR_CATEGORIES(category)
  ELSE REPAIR_CATEGORIES("Other")

\* The loop of create_subtasks: every item is attempted, failures are counted out.
RECURSIVE rw_create_each(_, _, _, _, _, _)
rw_create_each(ctx, gid, info, todo, created, F) ==
  LET name == info.emoji \o " " \o Head(todo)
      attempted(c) ==
        rw_create_each(IF Ok(c)
                         THEN Effect(c, create_subtask_for_task(c.remote, gid, name))
                       ELSE c,
                       gid, info, Tail(todo),
                       IF Ok(c) THEN created + 1 ELSE created, F)
  IN  IF todo = << >> THEN [ctx |-> ctx, created |-> created]
      ELSE attempted(Call(ctx, "tasks.create_subtask_for_task", gid, name, F))

create_subtasks(ctx, parent_task_gid, category, F) ==
  LET result(r) == [ctx |-> r.ctx, ret |-> r.created > 0]
  IN  result(rw_create_each(ctx, parent_task_gid, rw_category_info(category),
                            rw_category_info(category).subtypes, 0, F))

\* The calls of the try block of send_email_notification on the mail transport:
\* smtplib.SMTP(...), starttls(), login(...), send_message(message), quit()
smtp_steps ==
  <<"smtp.connect", "smtp.starttls", "smtp.login", "smtp.send_message", "smtp.quit">>

\* The session with the mail transport: the first call that raises ends it and the
\* function returns False; the message is in the outbox once send_message returned
RECURSIVE smtp_session(_, _, _, _, _)
smtp_session(ctx, task_gid, subject, steps, F) ==
  LET done(c) ==
        IF ~Ok(c) THEN [ctx |-> c, ret |-> FALSE]
        ELSE smtp_session(IF Head(steps) = "smtp.send_message"
                            THEN Effect(c, [c.remote EXCEPT !.outbox = Append(@, task_gid)])
                          ELSE c,
                          task_gid, subject, Tail(steps), F)
  IN  IF steps = << >> THEN [ctx |-> ctx, ret |-> TRUE]
      ELSE done(Call(ctx, Head(steps), task_gid, subject, F))

rw_send_email_notification(ctx, repair_details, task_gid, F) ==
  IF ~EMAIL_CONFIGURED THEN [ctx |-> ctx, ret |-> FALSE]
  ELSE smtp_session(ctx, task_gid, repair_details.issue_category, smtp_steps, F)

MarkerProbe == "Repair request processed"

MarkerText(subtask_result, email_result) ==
  "Repair request processed by system:\n"
    \o CHECK \o " Task formatted\n"
    \o (IF subtask_result THEN CHECK ELSE CROSS) \o " Category-specific subtasks created\n"
    \o (IF email_result THEN CHECK ELSE CROSS) \o " Notification email sent"

\* A slip of the error note: its text holds the phrase the scan looks for
ErrorNoteText_with_marker_phrase(error) ==
  WARNING \o " Repair request processed with error: " \o error

\* f"(warning) Error processing repair request: {str(e)}"
ErrorNoteText(error) == WARNING \o " Error processing repair request: " \o error

\* The except branch of process_repair_request: try to leave an error note
rw_on_error(ctx, gid, error, F) ==
  LET noted(c) ==
        [ctx |-> IF Ok(c)
                   THEN Effect(c, [c.remote EXCEPT
                                     !.stories[gid] = Append(@, ErrorNoteText(error))])
                 ELSE c,
         ret |-> FALSE, outcome |-> "failed"]
  IN  noted(Call(ctx, "stories.create_on_task", gid, ErrorNoteText(error), F))

\* A slip of the order of the steps: the marker is written before the email is sent
rw_after_rename_marker_before_email(ctx, gid, details, category, F) ==
  LET mailed(email) == [ctx |-> email.ctx, ret |-> TRUE, outcome |-> "processed"]
      committed(c, text) ==
        IF Ok(c)
          THEN mailed(rw_send_email_notification(
                        Effect(c, [c.remote EXCEPT !.stories[gid] = Append(@, text)]),
                        details, gid, F))
        ELSE rw_on_error(c, gid, ErrorText, F)
      marked(sub) ==
        committed(Call(sub.ctx, "stories.create_on_task", gid,
                       MarkerText(sub.ret, FALSE), F),
                  MarkerText(sub.ret, FALSE))
  IN  marked(create_subtasks(ctx, gid, category, F))

\* process_repair_request after the rename: sub-tasks, email, marker
rw_after_rename(ctx, gid, details, category, F) ==
  LET committed(c, text) ==
        IF Ok(c) THEN [ctx |-> Effect(c, [c.remote EXCEPT !.stories[gid] = Append(@, text)]),
                       ret |-> TRUE, outcome |-> "processed"]
        ELSE rw_on_error(c, gid, ErrorText, F)
      marked(subtask_result, email) ==
        committed(Call(email.ctx, "stories.create_on_task", gid,
                       MarkerText(subtask_result, email.ret), F),
                  MarkerText(subtask_result, email.ret))
      mailed(sub) ==
        marked(sub.ret, rw_send_email_notification(sub.ctx, details, gid, F))
  IN  mailed(create_subtasks(ctx, gid, category, F))

\* The comments process_repair_request writes on success
Markers == {MarkerText(a, b) : a, b \in BOOLEAN}

HasMarker(rem, gid) == \E i \in DOMAIN rem.stories[gid] : rem.stories[gid][i] \in Markers

\* The scan: "Repair request processed" in story['text'] for some story
AlreadyProcessed(rem, gid) ==
  \E i \in DOMAIN rem.stories[gid] : Contains(rem.stories[gid][i], MarkerProbe)

\* f"{category_info['emoji']} {issue_category} - {address}"
updated_name(repair_details) ==
  rw_category_info(repair_details.issue_category).emoji
    \o " " \o repair_details.issue_category \o " - " \o repair_details.address

\* process_repair_request of repair_workflow.py.  The scan reads the stories the
\* platform held when find_by_task was called.
rw_process_repair_request(ctx, task, F) ==
  LET gid == task.gid
      renamed(c, details) ==
        IF ~Ok(c) THEN rw_on_error(c, gid, ErrorText, F)
        ELSE rw_after_rename(Effect(c, [c.remote EXCEPT !.name[gid] = updated_name(details)]),
                             gid, details, details.issue_category, F)
      extracted(c, details) ==
        IF details.raised THEN rw_on_error(c, gid, SplitErrorText, F)
        ELSE renamed(Call(c, "tasks.update", gid, updated_name(details), F), details)
      scanned(c) ==
        IF ~Ok(c) THEN rw_on_error(c, gid, ErrorText, F)
        ELSE IF AlreadyProcessed(Returned(c), gid)
          THEN [ctx |-> c, ret |-> TRUE, outcome |-> "skipped"]
        ELSE extracted(c, extract_repair_details(task))
  IN  scanned(Call(ctx, "stories.find_by_task", gid, "", F))


(***************************** src/main.py *********************************)
\* is_repair_form_task of main.py: membership of the repair project, nothing else
\* (task.get('projects', []): a record without projects is no form task)
main_is_repair_form_task(task) ==
  /\ "projects" \in DOMAIN task
  /\ \E i \in DOMAIN task.projects : task.projects[i] = REPAIR_PROJECT_ID

\* ', '.join([val.get('name', '').strip() for val in names])
JoinNames(names) == Join(", ", [i \in DOMAIN names |-> Strip(names[i])])

\* str(None)
StrNone == "None"

\* get_task_field_value of main.py: the first field whose stripped, lower-cased
\* label EQUALS the stripped, lower-cased name and that yields a value.  A text
\* field without a value raises at .strip(); the except of the function returns
\* None.  A number field without a value yields str(None).
RECURSIVE main_get_task_field_value_in(_, _)
main_get_task_field_value_in(fields, field_name) ==
  IF fields = << >> THEN None
  ELSE LET field == Head(fields)
           rest == main_get_task_field_value_in(Tail(fields), field_name)
       IN  IF Strip(Lower(field.name)) # Strip(Lower(field_name)) THEN rest
           ELSE IF field.type = "text"
             THEN IF field.text_value = None THEN None ELSE Strip(field.text_value)
           ELSE IF field.type = "enum"
             THEN IF Truthy(field.enum_value) THEN Strip(field.enum_value) ELSE rest
           ELSE IF field.type = "multi_enum"
             THEN IF field.enum_values # << >> THEN JoinNames(field.enum_values) ELSE rest
           ELSE IF field.type = "number"
             THEN IF field.number_value = None THEN StrNone ELSE Strip(field.number_value)
           ELSE rest

main_get_task_field_value(task, field_name) ==
  main_get_task_field_value_in(task.custom_fields, field_name)

Or(value, default) == IF Truthy(value) THEN value ELSE default

base_subtasks(urgency) ==
  IF urgency = "Emergency"
    THEN <<"Initial assessment", "Immediate safety check", "Expedite emergency response",
           "Contact tenant to confirm details", "Schedule inspection">>
    ELSE <<"Initial assessment", "Contact tenant to confirm details", "Schedule inspection">>

suffix_subtasks ==
  <<"Procure necessary resources", "Execute repair", "Verify repair completion",
    "Follow up with tenant">>

\* REPAIR_CATEGORIES.get(issue_category, {}).get('subtypes', [])
main_category_subtasks(issue_category) ==
  IF issue_category \in CategoryKeys THEN REPAIR_CATEGORIES(issue_category).subtypes
  ELSE << >>

\* The loop of create_category_subtasks: the first failure ends it
RECURSIVE main_create_each(_, _, _, _)
main_create_each(ctx, gid, todo, F) ==
  LET attempted(c) ==
        IF ~Ok(c) THEN [ctx |-> c, ret |-> FALSE]
        ELSE main_create_each(Effect(c, create_subtask_for_task(c.remote, gid, Head(todo))),
                              gid, Tail(todo), F)
  IN  IF todo = << >> THEN [ctx |-> ctx, ret |-> TRUE]
      ELSE attempted(Call(ctx, "tasks.create_subtask_for_task", gid, Head(todo), F))

create_category_subtasks(ctx, task_gid, issue_category, urgency, F) ==
  main_create_each(ctx, task_gid,
                   base_subtasks(urgency) \o main_category_subtasks(issue_category)
                     \o suffix_subtasks, F)

\* send_email_notification of main.py: no test of the configuration; the same
\* session with the mail transport
main_send_email_notification(ctx, request_details, task_gid, F) ==
  smtp_session(ctx, task_gid, request_details.issue_category, smtp_steps, F)

\* full_request_details of process_repair_request of main.py: every attribute is
\* looked up by its form label and given its default with `or`
full_request_details(task_details) ==
  LET value(label) == main_get_task_field_value(task_details, label)
  IN  [first_name |-> Or(value("First Name"), "Unknown"),
       last_name |-> Or(value("Last Name"), ""),
       email |-> Or(value("Email Address"), "N/A"),
       phone |-> Or(value("Phone Number"), "N/A"),
       address |-> Or(value("Property Address"), "Unknown"),
       unit_number |-> Or(value("Unit Number"), "N/A"),
       urgency_level |-> Or(value("Urgency Level"), "Standard"),
       issue_category |-> Or(value("Issue Category"), "Other"),
       specific_issue |->
         Or(value("What kind of standard issue"),
            Or(value("What kind of emergency issue"), "Unspecified")),
       description |-> task_details.notes,
       raised |-> FALSE]

\* process_repair_request of main.py.  After the sub-tasks the statement `sen`
\* (line 360) raises NameError: the email is never sent and the call returns False.
main_process_repair_request(ctx, task, F) ==
  LET gid == task.gid
      urgency_level(task_details) ==
        Or(main_get_task_field_value(task_details, "Urgency Level"), "Standard")
      issue_category(task_details) ==
        Or(main_get_task_field_value(task_details, "Issue Category"), "Other")
      \* the NameError of line 360 is caught: return False
      name_error(sub) == [ctx |-> sub.ctx, ret |-> FALSE, outcome |-> "failed"]
      fetched(c) ==
        IF ~Ok(c) THEN [ctx |-> c, ret |-> FALSE, outcome |-> "failed"]
        ELSE name_error(create_category_subtasks(
                          c, gid, issue_category(TaskRecord(Returned(c), gid)),
                          urgency_level(TaskRecord(Returned(c), gid)), F))
  IN  fetched(Call(ctx, "tasks.find_by_id", gid, "", F))

(***************************** the webhook receiver ************************)
HOOK_SECRET == "X-Hook-Secret"
HOOK_SIGNATURE == "X-Hook-Signature"

\* hmac.new(key, msg, sha256).hexdigest(): always ASCII
hexdigest(key, msg) == [ascii |-> TRUE, key |-> key, msg |-> msg]

\* WEBHOOK_SECRET.get('secret', '')
stored_secret(store) == IF "secret" \in DOMAIN store THEN store["secret"] ELSE ""

\* WEBHOOK_SECRET['secret'] = secret
store_secret(store, secret) ==
  [k \in DOMAIN store \cup {"secret"} |-> IF k = "secret" THEN secret ELSE store[k]]

is_repair_form_task(app, task) ==
  IF app = "server" THEN rw_is_repair_form_task(task) ELSE main_is_repair_form_task(task)

get_task_field_value(app, task, field_name) ==
  IF app = "server" THEN rw_get_task_field_value(task, field_name)
  ELSE main_get_task_field_value(task, field_name)

process_repair_request(app, ctx, task, F) ==
  IF app = "server" THEN rw_process_repair_request(ctx, task, F)
  ELSE main_process_repair_request(ctx, task, F)

\* A slip of the dispatch test: the action of the event is not looked at
triggers_any_action(event) == event.resource.resource_type = "task"

\* if event.action == 'added' and event.resource.resource_type == 'task'
triggers(event) ==
  event.action = "added" /\ event.resource.resource_type = "task"

\* The body of the for loop, for one event.  raised: an exception left it.
dispatch_event(app, ctx, event, F) ==
  LET task_gid == event.resource.gid
      returned(r) ==
        [ctx |-> Log(Running(r.ctx, "webhook"), "return", task_gid, r.outcome, r.ret),
         raised |-> FALSE]
      dispatched(c, task) ==
        returned(process_repair_request(app, Running(c, "process_repair_request"), task, F))
      classified(c, task) ==
        IF ~is_repair_form_task(app, task) THEN [ctx |-> c, raised |-> FALSE]
        ELSE dispatched(Log(c, "process_repair_request", task_gid,
                            IF HasMarker(c.remote, task_gid) THEN "marked" ELSE "unmarked",
                            TRUE),
                        task)
      fetched(c) ==
        IF ~Ok(c) THEN [ctx |-> c, raised |-> TRUE]
        ELSE classified(Log(c, "is_repair_form_task", task_gid, "", TRUE),
                        TaskRecord(Returned(c), task_gid))
  IN  IF ~(triggers(event) /\ task_gid # "") THEN [ctx |-> ctx, raised |-> FALSE]
      ELSE fetched(Call(ctx, "tasks.find_by_id", task_gid, "", F))

\* for event in events: an exception leaves the loop
RECURSIVE dispatch_events(_, _, _, _)
dispatch_events(app, ctx, events, F) ==
  LET handled(r) ==
        IF r.raised THEN r ELSE dispatch_events(app, r.ctx, Tail(events), F)
  IN  IF events = << >> THEN [ctx |-> ctx, raised |-> FALSE]
      ELSE handled(dispatch_event(app, ctx, Head(events), F))

\* A slip of the parse step: a body that is not JSON reads as an empty object,
\* as request.get_json(silent=True) would give
ParseJson_silent(data) == [ok |-> TRUE, events |-> data.events]

\* request.json: the parsed body, or an exception
ParseJson(data) ==
  IF data.syntax = "json" THEN [ok |-> TRUE, events |-> data.events]
  ELSE [ok |-> FALSE, events |-> << >>]

Response(status, headers, body, raised, store, ctx) ==
  [status |-> status, headers |-> headers, body |-> body, raised |-> raised,
   store |-> store, ctx |-> ctx]

\* The try block: parse the body, walk the events
process_events(app, store, ctx, req, F) ==
  LET walked(r) ==
        Response(IF r.raised THEN 500 ELSE 200, EmptyDict, "", FALSE, store, r.ctx)
      parsed(data) ==
        IF ~data.ok THEN Response(500, EmptyDict, "", FALSE, store, ctx)
        ELSE walked(dispatch_events(app, ctx, data.events, F))
  IN  parsed(ParseJson(req.data))

\* A slip of the handshake branch: after storing the secret it goes on to the
\* events of the body
handshake_then_events(store, ctx, req, F) ==
  LET secret == req.headers[HOOK_SECRET]
      walked(r) ==
        Response(200, [h \in {HOOK_SECRET} |-> secret], "{}", FALSE, r.store, r.ctx)
  IN  walked(process_events("server", store_secret(store, secret), ctx, req, F))

\* The handshake branch
handshake(store, ctx, req, F) ==
  LET secret == req.headers[HOOK_SECRET]
  IN  Response(200, [h \in {HOOK_SECRET} |-> secret], "{}", FALSE,
               store_secret(store, secret), ctx)

\* A slip of the signature check: the test for a stored secret is left out, and the
\* digest is computed under the empty key while nothing is stored
post_branch_without_presence_test(app, store, ctx, req, F) ==
  LET signed == HOOK_SIGNATURE \in DOMAIN req.headers
      signature == req.headers[HOOK_SIGNATURE]
      computed_signature == hexdigest(stored_secret(store), req.data)
  IN  IF signed /\ ~signature.ascii
        THEN Response(500, EmptyDict, "Internal Server Error", TRUE, store, ctx)
      ELSE IF signed /\ signature # computed_signature
        THEN Response(401, EmptyDict, "", FALSE, store, ctx)
      ELSE process_events(app, store, ctx, req, F)

\* if request.method == 'POST': verify the signature when one is sent, then process.
\* hmac.compare_digest raises TypeError on a str with a non-ASCII character; the
\* call is outside the try block and Flask answers 500.
post_branch(app, store, ctx, req, F) ==
  LET signed == HOOK_SIGNATURE \in DOMAIN req.headers
      stored == stored_secret(store)
      signature == req.headers[HOOK_SIGNATURE]
      computed_signature == hexdigest(stored, req.data)
  IN  IF signed /\ stored = "" THEN Response(401, EmptyDict, "", FALSE, store, ctx)
      ELSE IF signed /\ ~signature.ascii
        THEN Response(500, EmptyDict, "Internal Server Error", TRUE, store, ctx)
      ELSE IF signed /\ signature # computed_signature
        THEN Response(401, EmptyDict, "", FALSE, store, ctx)
      ELSE process_events(app, store, ctx, req, F)

\* src/server.py
receive_webhook(store, ctx, req, F) ==
  IF HOOK_SECRET \in DOMAIN req.headers THEN handshake(store, ctx, req, F)
  ELSE IF req.method = "POST" THEN post_branch("server", store, ctx, req, F)
  ELSE Response(405, EmptyDict, "Method Not Allowed", FALSE, store, ctx)

\* src/main.py
handle_webhook(store, ctx, req, F) ==
  IF req.method = "GET"
    THEN Response(200, EmptyDict, "Webhook Endpoint is Accessible", FALSE, store, ctx)
  ELSE IF HOOK_SECRET \in DOMAIN req.headers THEN handshake(store, ctx, req, F)
  ELSE IF req.method = "POST" THEN post_branch("main", store, ctx, req, F)
  ELSE Response(405, EmptyDict, "Method Not Allowed", FALSE, store, ctx)

webhook(app, store, ctx, req, F) ==
  IF app = "server" THEN receive_webhook(store, ctx, req, F)
  ELSE handle_webhook(store, ctx, req, F)


\* os.environ.get('X_HOOK_SECRET', ''): not set
X_HOOK_SECRET == ""

\* The values secrets.token_hex(16) may return
TokenHex == {"s0", "r1"}

\* GET /setup.  setup_webhook of src/server.py stores a secret of its own, then
\* asks the platform for a webhook; setup of src/main.py leaves WEBHOOK_SECRET
\* alone.  The body is the "status" of the JSON answer.
\* x_hook_secret: the value of the environment, or, when there is none, a secret
\* generated for this request (req.token_hex is what secrets.token_hex(16)
\* returns while the request is handled).
setup_webhook(app, store, ctx, req, F) ==
  LET x_hook_secret == IF X_HOOK_SECRET # "" THEN X_HOOK_SECRET ELSE req.token_hex
      asked(c, stored) ==
        Response(IF Ok(c) THEN 200 ELSE 500, EmptyDict,
                 IF Ok(c) THEN "success" ELSE "error", FALSE, stored, c)
      kept(stored) == asked(Call(ctx, "webhooks.create", "", "", F), stored)
  IN  kept(IF app = "server" THEN store_secret(store, x_hook_secret) ELSE store)

\* process_specific_task of src/main.py, GET /process-task/<task_gid>; src/server.py
\* registers the same function on its own app.  It uses the classifier and the
\* orchestrator of main.py in both applications.
process_specific_task(store, ctx, task_gid, F) ==
  LET returned(r) ==
        Response(IF r.ret THEN 200 ELSE 500, EmptyDict,
                 IF r.ret THEN "success" ELSE "error", FALSE, store,
                 Log(Running(r.ctx, "process_specific_task"), "return", task_gid,
                     r.outcome, r.ret))
      dispatched(c, task) ==
        returned(main_process_repair_request(Running(c, "process_repair_request"), task, F))
      classified(c, task) ==
        IF ~main_is_repair_form_task(task) THEN Response(400, EmptyDict, "error", FALSE, store, c)
        ELSE dispatched(Log(c, "process_repair_request", task_gid,
                            IF HasMarker(c.remote, task_gid) THEN "marked" ELSE "unmarked",
                            TRUE),
                        task)
      fetched(c) ==
        IF ~Ok(c) THEN Response(500, EmptyDict, "error", FALSE, store, c)
        ELSE classified(Log(c, "is_repair_form_task", task_gid, "", TRUE),
                        TaskRecord(Returned(c), task_gid))
  IN  fetched(Call(ctx, "tasks.find_by_id", task_gid, "", F))

\* str(n) of a count
Str(n) ==
  CASE n = 0 -> "0" [] n = 1 -> "1" [] n = 2 -> "2" [] n = 3 -> "3" [] n = 4 -> "4"
    [] OTHER -> "many"

\* The loop of process_recent over the tasks find_all returned: a form task is
\* processed, the successes are counted
RECURSIVE process_each(_, _, _, _, _)
process_each(ctx, rem, gids, processed_count, F) ==
  LET task_gid == Head(gids)
      returned(r) ==
        process_each(Log(Running(r.ctx, "process_recent"), "return", task_gid,
                         r.outcome, r.ret),
                     rem, Tail(gids),
                     IF r.ret THEN processed_count + 1 ELSE processed_count, F)
      dispatched(c, task) ==
        returned(main_process_repair_request(Running(c, "process_repair_request"), task, F))
      classified(c, task) ==
        IF ~main_is_repair_form_task(task)
          THEN process_each(c, rem, Tail(gids), processed_count, F)
        ELSE dispatched(Log(c, "process_repair_request", task_gid,
                            IF HasMarker(c.remote, task_gid) THEN "marked" ELSE "unmarked",
                            TRUE),
                        task)
  IN  IF gids = << >> THEN [ctx |-> ctx, processed_count |-> processed_count]
      ELSE classified(Log(ctx, "is_repair_form_task", task_gid, "", TRUE),
                      CompactRecord(rem, task_gid))

\* process_recent of src/main.py, GET /process-recent, registered by src/server.py
\* as well: the tasks of the repair project are listed (compact records) and
\* each is handed to the classifier and the orchestrator of main.py
process_recent(store, ctx, F) ==
  LET walked(r) ==
        Response(200, EmptyDict,
                 CHECK \o " Processed " \o Str(r.processed_count)
                   \o " recent repair request tasks",
                 FALSE, store, r.ctx)
      listed(c) ==
        IF ~Ok(c)
          THEN Response(500, EmptyDict, "Error processing recent tasks: " \o ErrorText,
                        FALSE, store, c)
        ELSE walked(process_each(c, Returned(c), ProjectTasks, 0, F))
  IN  listed(Call(ctx, "tasks.find_all", "", REPAIR_PROJECT_ID, F))

\* test_email of src/main.py, GET /test-email, registered by src/server.py as well:
\* the result of send_email_notification is not looked at; test_task_gid is
\* 'test_task_12345'
test_email(store, ctx, F) ==
  LET sent(r) == Response(200, EmptyDict, "success", FALSE, store, r.ctx)
  IN  sent(main_send_email_notification(ctx, [issue_category |-> "Plumbing"],
                                        "test_task_12345", F))

\* health of src/main.py, GET /health
health(store, ctx) == Response(200, EmptyDict, "healthy", FALSE, store, ctx)

\* manual_trigger of src/main.py, GET /manual-trigger: a page of links
manual_trigger(store, ctx) ==
  Response(200, EmptyDict, "Property Repair Management", FALSE, store, ctx)

PROCESS_TASK == "/process-task/"

\* <task_gid> of the rule /process-task/<task_gid>
TaskGidOf(path) == SubSeq(path, Len(PROCESS_TASK) + 1, Len(path))

\* The view function the URL map of the application gives the request to
Handle(app, store, ctx, req, F) ==
  CASE req.path = "/webhook" -> webhook(app, store, Running(ctx, "webhook"), req, F)
    [] req.path = "/setup" -> setup_webhook(app, store, Running(ctx, "setup_webhook"), req, F)
    [] req.path = "/process-recent" ->
         process_recent(store, Running(ctx, "process_recent"), F)
    [] req.path = "/test-email" -> test_email(store, Running(ctx, "test_email"), F)
    [] req.path = "/health" -> health(store, Running(ctx, "health"))
    [] req.path = "/manual-trigger" -> manual_trigger(store, Running(ctx, "manual_trigger"))
    [] OTHER ->
         process_specific_task(store, Running(ctx, "process_specific_task"),
                               TaskGidOf(req.path), F)

(***************************** inputs **************************************)
Methods == {"GET", "POST"}
SecretValues == {"", "s1", "s2"}

Event(action, resource_type, gid) ==
  [action |-> action, resource |-> [resource_type |-> resource_type, gid |-> gid]]

Events == { Event("added", "task", "T1"), Event("added", "task", "T2"),
            Event("added", "task", "T3"),
            Event("changed", "task", "T1"), Event("added", "story", "T1") }

SeqsUpTo(S, n) == UNION {[1..k -> S] : k \in 0..n}

MalformedBody == [syntax |-> "garbage", events |-> << >>]
Bodies == {MalformedBody} \cup {[syntax |-> "json", events |-> e] : e \in SeqsUpTo(Events, MaxEvents)}

\* An X-Hook-Signature value: a digest under a key a sender signs with ("", a
\* handshake secret, a secret of /setup), or a non-ASCII string
Signatures(data) ==
  {hexdigest(k, data) : k \in {"", "s1"} \cup TokenHex}
    \cup {[ascii |-> FALSE, key |-> "", msg |-> data]}

HeaderSets(data) ==
  LET secretPart == {EmptyDict} \cup {[h \in {HOOK_SECRET} |-> v] : v \in SecretValues}
      sigPart == {EmptyDict} \cup {[h \in {HOOK_SIGNATURE} |-> g] : g \in Signatures(data)}
  IN  {a @@ b : a \in secretPart, b \in sigPart}

\* token_hex: what secrets.token_hex(16) returns while the request is handled
\* ("" for a request whose handler does not call it)
Request(m, h, d) ==
  [path |-> "/webhook", method |-> m, headers |-> h, data |-> d, token_hex |-> ""]

Requests == UNION {{Request(m, h, d) : m \in Methods, h \in HeaderSets(d)} : d \in Bodies}

\* The request has at most one event and, when it is signed, a digest under "s1"
Short(r) ==
  /\ Len(r.data.events) <= 1
  /\ HOOK_SIGNATURE \in DOMAIN r.headers => r.headers[HOOK_SIGNATURE] = hexdigest("s1", r.data)

\* Requests that carry X-Hook-Secret
HandshakeRequests ==
  {r \in Requests : HOOK_SECRET \in DOMAIN r.headers /\ Short(r) /\ r.data.syntax = "json"}

\* GET requests without X-Hook-Secret
ProbeRequests ==
  {r \in Requests : HOOK_SECRET \notin DOMAIN r.headers /\ r.method = "GET" /\ Short(r)}

\* POST requests without X-Hook-Secret; the signed ones hold at most one event
DeliveryRequests ==
  {r \in Requests : /\ HOOK_SECRET \notin DOMAIN r.headers /\ r.method = "POST"
                    /\ HOOK_SIGNATURE \in DOMAIN r.headers => Len(r.data.events) <= 1}

\* A GET of one of the other routes: no header of interest, no body
Get(path) ==
  [path |-> path, method |-> "GET", headers |-> EmptyDict, data |-> MalformedBody,
   token_hex |-> ""]

\* The calls on the platform and on the mail transport
RemoteOps ==
  {"tasks.find_by_id", "tasks.find_all", "stories.find_by_task", "tasks.update",
   "tasks.create_subtask_for_task", "stories.create_on_task", "webhooks.create",
   "smtp.connect", "smtp.starttls", "smtp.login", "smtp.send_message", "smtp.quit"}

\* The calls of a request that may raise: the first of every kind, and the second
\* fetch, creation and comment
FaultPoints ==
  {<<op, 1>> : op \in RemoteOps}
    \cup { <<"tasks.find_by_id", 2>>, <<"tasks.create_subtask_for_task", 2>>,
           <<"stories.create_on_task", 2>> }

\* The fault plans of one step of a handler: its call returns, or it raises
Returns == {}
Raises == FaultPoints

(***************************** the state machine ***************************)
\* A helper function called directly: its arguments, the remote calls it has made
\* so far, whether it has returned (pc) and what it returned
NoProbe ==
  [function |-> "", task |-> << >>, field_name |-> "", result |-> << >>,
   calls |-> << >>, pc |-> "idle"]

\* Requests are handled at the same time (app.run serves each request on a thread
\* of its own); Workers names the threads that are between two remote calls
Workers == {"a", "b"}

NoRequest ==
  [req |-> [path |-> "", method |-> "", headers |-> EmptyDict, data |-> MalformedBody,
           token_hex |-> ""],
   faults |-> {}, before |-> EmptyDict, after |-> EmptyDict, remoteBefore |-> RemoteInit,
   alone |-> TRUE, status |-> 0, headers |-> EmptyDict, body |-> "", raised |-> FALSE, calls |-> << >>]

\* A thread: the request it handles, WEBHOOK_SECRET and the platform as they were
\* when the request arrived, WEBHOOK_SECRET as the handler left it, the calls
\* made so far with what they returned, and whether no other thread has been
\* between two remote calls since the request arrived (alone)
NoRun == [pc |-> "idle", req |-> NoRequest.req, before |-> EmptyDict, after |-> EmptyDict,
          remoteBefore |-> RemoteInit, alone |-> TRUE, calls |-> << >>]

\* failures: the calls that raised so far; turn: the thread whose call was made
\* last; switches: how often a thread made a call while the thread of the call
\* before was still between two of its own
NoneInFlight == [failures |-> 0, turn |-> "", switches |-> 0,
                 run |-> [w \in Workers |-> NoRun]]

\* The locals of a signed delivery in its signature check; tested and key note
\* the value the presence test looked at and the key the HMAC was computed with,
\* held the values WEBHOOK_SECRET has had since the delivery arrived
NotVerifying ==
  [pc |-> "idle", signature |-> hexdigest("", MalformedBody), stored_secret |-> "",
   tested |-> "", key |-> "", status |-> 0, held |-> {}]

Init ==
  /\ impl \in {"server", "main"}
  /\ WEBHOOK_SECRET = EmptyDict
  /\ remote = RemoteInit
  /\ delivered = 0
  /\ phase = "idle"
  /\ last = NoRequest
  /\ probe = NoProbe
  /\ inflight = NoneInFlight
  /\ verifying = NotVerifying

\* The remote calls of a list of calls that raised, as <<op, ordinal>>
FailedCalls(calls) ==
  {<<calls[i].op, Ordinal(SubSeq(calls, 1, i - 1), calls[i].op)>> :
     i \in {k \in DOMAIN calls : calls[k].op \in RemoteOps /\ ~calls[k].ok}}

\* The response of a handled request is sent
Answered(run, r) ==
  [req |-> run.req, faults |-> FailedCalls(r.ctx.calls), before |-> run.before,
   after |-> run.after, remoteBefore |-> run.remoteBefore, alone |-> run.alone,
   status |-> r.status, headers |-> r.headers, body |-> r.body,
   raised |-> r.raised, calls |-> r.ctx.calls]

\* No request is being handled
Quiet == \A w \in Workers : inflight.run[w].pc = "idle"

\* The thread that takes the next request
FreeWorker == CHOOSE w \in Workers : inflight.run[w].pc = "idle" /\ (w = "a" \/ inflight.run["a"].pc # "idle")

\* A request arrives and its handler runs up to its first remote call, or to its
\* response when it makes none.  n: how much the request counts.
Receive(req, r, n) ==
  /\ delivered' = delivered + n
  /\ WEBHOOK_SECRET' = r.store
  /\ IF r.ctx.blocked
       THEN /\ \E w \in Workers : inflight.run[w].pc = "idle"
            /\ inflight' = [inflight EXCEPT
                              !.run = [w \in Workers |->
                                         IF w = FreeWorker
                                           THEN [pc |-> "running", req |-> req,
                                                 before |-> WEBHOOK_SECRET, after |-> r.store,
                                                 remoteBefore |-> remote, alone |-> Quiet,
                                                 calls |-> r.ctx.calls]
                                         ELSE IF inflight.run[w].pc = "idle" THEN NoRun
                                         ELSE [inflight.run[w] EXCEPT !.alone = FALSE]]]
            /\ UNCHANGED <<phase, last>>
       ELSE /\ phase' = "responded"
            /\ last' = Answered([req |-> req, before |-> WEBHOOK_SECRET, after |-> r.store,
                                  remoteBefore |-> remote, alone |-> TRUE], r)
            /\ UNCHANGED inflight
  /\ UNCHANGED <<impl, remote, probe, verifying>>

\* The requests that arrive while other requests are being handled
AddedT1 == [syntax |-> "json", events |-> <<Event("added", "task", "T1")>>]

OverlapRequests ==
  { Request("POST", EmptyDict, AddedT1),
    Request("POST", [h \in {HOOK_SIGNATURE} |-> hexdigest("s0", AddedT1)], AddedT1),
    Request("POST", [h \in {HOOK_SECRET} |-> "s1"], [syntax |-> "json", events |-> << >>]),
    Get(PROCESS_TASK \o "T1") } \cup {[Get("/setup") EXCEPT !.token_hex = t] : t \in TokenHex}

Incoming(req) ==
  /\ phase = "idle"
  /\ delivered < MaxRequests
  /\ Quiet \/ (req \in OverlapRequests
                /\ \A w \in Workers : inflight.run[w].pc = "idle"
                                          \/ inflight.run[w].req \in OverlapRequests)
  /\ Receive(req, Handle(impl, WEBHOOK_SECRET, Context(remote, "", << >>, 0), req, Returns), 1)

\* A request carrying X-Hook-Secret arrives at /webhook
Handshake == \E req \in HandshakeRequests : Incoming(req)

\* A GET without X-Hook-Secret arrives at /webhook
Probe == \E req \in ProbeRequests : Incoming(req)

\* A POST without X-Hook-Secret arrives at /webhook
Deliver == \E req \in DeliveryRequests : Incoming(req)

\* GET /setup, and the secret generated while it is handled
Setup == \E token \in TokenHex : Incoming([Get("/setup") EXCEPT !.token_hex = token])

\* GET /process-task/<task_gid>
ProcessTask == \E task_gid \in Gids : Incoming(Get(PROCESS_TASK \o task_gid))

\* GET /process-recent
ProcessRecent == Incoming(Get("/process-recent"))

\* GET /test-email
TestEmail == Incoming(Get("/test-email"))

\* GET /health
Health == Incoming(Get("/health"))

\* GET /manual-trigger
ManualTrigger == Incoming(Get("/manual-trigger"))

\* The remote call a thread waits at is made; it returns or raises (at most
\* MaxFaults calls raise), and the handler runs on to its next remote call, or to
\* its response.  (A response is sent before the next step of any handler is
\* looked at: sending it changes nothing a handler reads.)
Proceed(w) ==
  LET run == inflight.run[w]
      preempts == inflight.turn \notin {"", w} /\ inflight.run[inflight.turn].pc = "running"
      after(r) ==
        /\ remote' = r.ctx.remote
        /\ inflight' = [failures |-> inflight.failures
                                       + Cardinality(FailedCalls(r.ctx.calls))
                                       - Cardinality(FailedCalls(run.calls)),
                        turn |-> w,
                        switches |-> inflight.switches + (IF preempts THEN 1 ELSE 0),
                        run |-> IF r.ctx.blocked
                                  THEN [inflight.run EXCEPT ![w].calls = r.ctx.calls]
                                ELSE [inflight.run EXCEPT ![w] = NoRun]]
        /\ IF r.ctx.blocked THEN UNCHANGED <<phase, last>>
           ELSE /\ phase' = "responded"
                /\ last' = Answered(run, r)
  IN  /\ phase = "idle"
      /\ run.pc = "running"
      /\ preempts => inflight.switches < MaxSwitches
      /\ \E F \in IF inflight.failures < MaxFaults THEN {Returns, Raises} ELSE {Returns} :
            after(Handle(impl, run.before, Context(remote, "", run.calls, 1), run.req, F))
      /\ UNCHANGED <<impl, WEBHOOK_SECRET, delivered, probe, verifying>>

\* The response has been sent; the request context is discarded
Respond ==
  /\ phase = "responded"
  /\ phase' = "idle"
  /\ last' = NoRequest
  /\ UNCHANGED <<impl, WEBHOOK_SECRET, remote, delivered, probe, inflight, verifying>>

Next ==
  \/ Handshake \/ Probe \/ Deliver \/ Setup \/ ProcessTask \/ ProcessRecent
  \/ TestEmail \/ Health \/ ManualTrigger
  \/ \E w \in Workers : Proceed(w)
  \/ Respond

Spec == Init /\ [][Next]_vars

(***************************** the helper functions called directly ********)
\* Task records and logical names the helper functions are called with
ProbeFields ==
  { EnumField("Urgency Level", "Emergency"),
    EnumField("Urgency Level", None),
    EnumField("URGENCY LEVEL", "Standard"),
    EnumField("Issue Category", "Plumbing"),
    EnumField("Subcategory", "Pipes"),
    TextField("urgency", "High"),
    TextField("Priority", "Low"),
    TextField("Tenant Name", "Ann Lee"),
    TextField("Tenant Name", None),
    TextField("Username", "ann"),
    TextField("Community", " Oak Court "),
    NumberField("Unit Number", None),
    NumberField("Unit Number", "3"),
    MultiEnumField("Affected Rooms", << >>),
    MultiEnumField("Affected Rooms", <<"Kitchen", " Bath ">>) }

ProbeNames == { "Kitchen sink", "REPAIR now", "prefix", "Plumbing issue" }
ProbeNotes == { "", "tap not working", "electrical fault", "tissue" }

ProbeTasks ==
  {[gid |-> "T9", name |-> n, notes |-> d, projects |-> <<p>>, custom_fields |-> f] :
     n \in ProbeNames, d \in ProbeNotes,
     p \in {REPAIR_PROJECT_ID, OTHER_PROJECT_ID},
     f \in SeqsUpTo(ProbeFields, MaxFields)}

LogicalNames ==
  { "urgency", "Urgency Level", "urgency level ", "Issue Category", "category",
    "address", "Unit Number", "Affected Rooms" }

\* get_task_field_value(task, field_name) is called
GetFieldValue ==
  /\ probe = NoProbe
  /\ \E task \in ProbeTasks, field_name \in LogicalNames :
        probe' = [function |-> "get_task_field_value", task |-> task,
                  field_name |-> field_name,
                  result |-> get_task_field_value(impl, task, field_name),
                  calls |-> << >>, pc |-> "returned"]
  /\ UNCHANGED <<impl, WEBHOOK_SECRET, remote, delivered, phase, last, inflight, verifying>>

\* is_repair_form_task(task) is called
Classify ==
  /\ probe = NoProbe
  /\ \E task \in ProbeTasks :
        probe' = [function |-> "is_repair_form_task", task |-> task,
                  field_name |-> "",
                  result |-> is_repair_form_task(impl, task),
                  calls |-> << >>, pc |-> "returned"]
  /\ UNCHANGED <<impl, WEBHOOK_SECRET, remote, delivered, phase, last, inflight, verifying>>

\* The creation step of either application; that of src/repair_workflow.py is
\* not given the urgency
create_checklist(app, ctx, task_gid, category, urgency, F) ==
  IF app = "server" THEN create_subtasks(ctx, task_gid, category, F)
  ELSE create_category_subtasks(ctx, task_gid, category, urgency, F)

\* The creation step is called for T1, a task without sub-tasks: it runs up to its
\* first client.tasks.create_subtask_for_task.  The categories are the keys of the
\* catalog and a name that is none of them.
CreateChecklist ==
  /\ probe = NoProbe
  /\ \E category \in CategoryKeys \cup {"Roofing"},
        urgency \in {"Emergency", "Standard", "High"} :
        probe' = [function |-> "create_subtasks",
                  task |-> [category |-> category, urgency |-> urgency],
                  field_name |-> "", result |-> << >>, calls |-> << >>, pc |-> "running"]
  /\ UNCHANGED <<impl, WEBHOOK_SECRET, remote, delivered, phase, last, inflight, verifying>>

\* The creation the step waits at is made on the platform; it returns or raises
\* (at most MaxFaults creations raise), and the loop runs on to the next creation,
\* or the function returns.  result: the sub-tasks T1 has when it returns.
CreateSubtask ==
  LET failed == Cardinality(FailedCalls(probe.calls))
      after(r) ==
        /\ remote' = r.ctx.remote
        /\ probe' = IF r.ctx.blocked THEN [probe EXCEPT !.calls = r.ctx.calls]
                    ELSE [probe EXCEPT !.calls = r.ctx.calls, !.pc = "returned",
                                       !.result = r.ctx.remote.subtasks["T1"]]
  IN  /\ probe.function = "create_subtasks"
      /\ probe.pc = "running"
      /\ \E F \in IF failed < MaxFaults THEN {Returns, Raises} ELSE {Returns} :
            after(create_checklist(impl, Context(remote, "create_subtasks", probe.calls, 1),
                                   "T1", probe.task.category, probe.task.urgency, F))
      /\ UNCHANGED <<impl, WEBHOOK_SECRET, delivered, phase, last, inflight, verifying>>

\* The Repair Request Details either application builds from a task record
repair_details(app, task) ==
  IF app = "server" THEN extract_repair_details(task) ELSE full_request_details(task)

\* The details of a task are extracted
ExtractDetails ==
  /\ probe = NoProbe
  /\ \E task \in ProbeTasks :
        probe' = [function |-> "extract_repair_details", task |-> task,
                  field_name |-> "",
                  result |-> repair_details(impl, task),
                  calls |-> << >>, pc |-> "returned"]
  /\ UNCHANGED <<impl, WEBHOOK_SECRET, remote, delivered, phase, last, inflight, verifying>>

HelperNext ==
  GetFieldValue \/ Classify \/ CreateChecklist \/ CreateSubtask \/ ExtractDetails

HelperSpec == Init /\ [][HelperNext]_vars

(***************************** two deliveries at the same time **************)
\* src/server.py is sent the added-event of T1 twice, unsigned, the second while
\* the first is being handled; the threads take their steps in any order
RaceDeliver ==
  /\ impl = "server"
  /\ Incoming(Request("POST", EmptyDict, AddedT1))

RaceNext ==
  \/ RaceDeliver
  \/ \E w \in Workers : Proceed(w)
  \/ Respond

RaceSpec == Init /\ [][RaceNext]_vars

(***************************** a signed delivery beside handshakes **********)
\* Handshakes and deliveries run on threads of their own and share WEBHOOK_SECRET
\* without a lock.  A handshake touches it by one dict assignment, the signature
\* check of a delivery by one dict read (WEBHOOK_SECRET.get) into a local.
SignedBody == [syntax |-> "json", events |-> << >>]

\* A slip of the check: the key of the HMAC is read from WEBHOOK_SECRET again
hmac_key_read_again(local, store) == stored_secret(store)

\* key=stored_secret.encode(): the local read at the start of the check
hmac_key(local, store) == local

\* A handshake stores its header value while the delivery is somewhere in its check
ConcurrentHandshake ==
  /\ delivered < MaxRequests
  /\ \E secret \in SecretValues :
        /\ WEBHOOK_SECRET' = store_secret(WEBHOOK_SECRET, secret)
        /\ verifying' = IF verifying.pc \in {"read", "verify"}
                          THEN [verifying EXCEPT !.held = @ \cup {store_secret(WEBHOOK_SECRET, secret)}]
                          ELSE verifying
  /\ delivered' = delivered + 1
  /\ UNCHANGED <<impl, remote, phase, last, probe, inflight>>

\* A POST with X-Hook-Signature and without X-Hook-Secret arrives
Arrive ==
  /\ verifying.pc = "idle"
  /\ \E signature \in Signatures(SignedBody) :
        verifying' = [verifying EXCEPT !.pc = "read", !.signature = signature,
                                       !.held = {WEBHOOK_SECRET}]
  /\ UNCHANGED <<impl, WEBHOOK_SECRET, remote, delivered, phase, last, probe, inflight>>

\* stored_secret = WEBHOOK_SECRET.get('secret', ''); if not stored_secret: 401
ReadSecret ==
  /\ verifying.pc = "read"
  /\ verifying' = [verifying EXCEPT
                     !.stored_secret = stored_secret(WEBHOOK_SECRET),
                     !.tested = stored_secret(WEBHOOK_SECRET),
                     !.pc = IF stored_secret(WEBHOOK_SECRET) = "" THEN "done" ELSE "verify",
                     !.status = IF stored_secret(WEBHOOK_SECRET) = "" THEN 401 ELSE 0]
  /\ UNCHANGED <<impl, WEBHOOK_SECRET, remote, delivered, phase, last, probe, inflight>>

\* computed_signature = hmac.new(key=stored_secret.encode(), ...).hexdigest() and
\* hmac.compare_digest; an accepted delivery with no event is answered 200
VerifySignature ==
  LET key == hmac_key(verifying.stored_secret, WEBHOOK_SECRET)
      computed_signature == hexdigest(key, SignedBody)
  IN  /\ verifying.pc = "verify"
      /\ verifying' = [verifying EXCEPT
                         !.key = key,
                         !.pc = "done",
                         !.status = IF ~verifying.signature.ascii THEN 500
                                    ELSE IF verifying.signature # computed_signature THEN 401
                                    ELSE 200]
      /\ UNCHANGED <<impl, WEBHOOK_SECRET, remote, delivered, phase, last, probe, inflight>>

GateNext == ConcurrentHandshake \/ Arrive \/ ReadSecret \/ VerifySignature

GateSpec == Init /\ [][GateNext]_vars


(***************************** redelivery ***********************************)
\* The upstream platform delivers the added-event of a task again and again to
\* src/server.py, also while an earlier delivery is being handled.  No handshake
\* has armed the receiver and the deliveries are unsigned.  At most MaxFaults remote calls fail: the remote calls succeed from
\* some time on.  (Under src/main.py a task never gets a marker and every
\* delivery adds its checklist again; its deliveries are not part of this.)
RedeliveryRequests(g) ==
  {r \in DeliveryRequests :
     /\ r.data = [syntax |-> "json", events |-> <<Event("added", "task", g)>>]
     /\ HOOK_SIGNATURE \in DOMAIN r.headers
          => /\ stored_secret(WEBHOOK_SECRET) # ""
             /\ r.headers[HOOK_SIGNATURE] = hexdigest(stored_secret(WEBHOOK_SECRET), r.data)}

\* The task has as many comments as the model follows
Full(g) == Len(remote.stories[g]) >= MaxComments

\* The event of task g is delivered
Redeliver(g) ==
  /\ impl = "server"
  /\ phase = "idle"
  /\ ~Full(g)
  /\ \E req \in RedeliveryRequests(g) :
        /\ Quiet \/ (req \in OverlapRequests
                      /\ \A w \in Workers : inflight.run[w].pc = "idle"
                                                \/ inflight.run[w].req \in OverlapRequests)
        /\ Receive(req, Handle(impl, WEBHOOK_SECRET, Context(remote, "", << >>, 0), req, Returns), 0)

\* The tasks whose event is redelivered: the tasks of the repair project
RedeliveredGids == {"T1", "T3"}

LiveNext ==
  \/ \E g \in RedeliveredGids : Redeliver(g)
  \/ \E w \in Workers : Proceed(w)
  \/ Respond

\* A delivery of the event of g during which no call failed has just been answered
Redelivered(g) ==
  /\ phase = "responded"
  /\ last.faults = {}
  /\ last.req.path = "/webhook" /\ last.req.method = "POST"
  /\ last.req.data = [syntax |-> "json", events |-> <<Event("added", "task", g)>>]

\* Every request is answered, and the platform keeps redelivering the event of
\* every task: deliveries of it are handled to their response again and again
\* (stated on the state the response leads to) until the task has MaxComments
\* comments, and no thread waits for ever
LiveSpec ==
  /\ Init
  /\ [][LiveNext]_vars
  /\ WF_vars(Respond)
  /\ \A g \in RedeliveredGids : []<>(impl = "server" => Redelivered(g) \/ Full(g))
  /\ \A w \in Workers : []<>(inflight.run[w].pc = "idle")

(***************************** reading a handled request *******************)
Done == phase = "responded"
OnWebhook == Done /\ last.req.path = "/webhook"
HasSecretHeader == HOOK_SECRET \in DOMAIN last.req.headers
HasSignature == HOOK_SIGNATURE \in DOMAIN last.req.headers
\* A POST to /webhook without the handshake header
Delivery == OnWebhook /\ last.req.method = "POST" /\ ~HasSecretHeader

\* Armed: a secret has been stored
Armed(store) == "secret" \in DOMAIN store
ExpectedSignature == hexdigest(last.before["secret"], last.req.data)
\* The signature is the digest of the body under the stored value
SignedWithStored == HasSignature /\ Armed(last.before)
                      /\ last.req.headers[HOOK_SIGNATURE] = ExpectedSignature
\* ... and the check of the code accepts it: the stored value is not empty
SignedRight == SignedWithStored /\ last.before["secret"] # ""
\* The delivery is authentic in the sense of the specification: signed with the
\* stored secret, or unsigned while no secret was ever stored
Authentic == Delivery /\ (SignedRight \/ (~HasSignature /\ ~Armed(last.before)))
\* The delivery is not stopped by the signature check of the code
PastGate == Delivery /\ (SignedRight \/ ~HasSignature)

\* The handler made no remote call and no call of the classifier or orchestrator
NoProcessing == last.calls = << >>
\* The handler left WEBHOOK_SECRET as it found it
SecretUnchanged == last.after = last.before

Envelope == last.req.data.events
Parses == last.req.data.syntax = "json"
IsTrigger(e) == e.action = "added" /\ e.resource.resource_type = "task"

Calls(op, by) == SelectSeq(last.calls, LAMBDA c : c.op = op /\ c.by = by)
GidsOf(cs) == [i \in DOMAIN cs |-> cs[i].gid]
IsPrefix(a, b) == Len(a) <= Len(b) /\ \A i \in DOMAIN a : a[i] = b[i]
TriggerGids ==
  LET t == SelectSeq(Envelope, IsTrigger) IN [i \in DOMAIN t |-> t[i].resource.gid]
\* The task fetches the handler itself made, in order
Fetched == Calls("tasks.find_by_id", "webhook")
Classified == Calls("is_repair_form_task", "webhook")
Dispatched == Calls("process_repair_request", "webhook")

InProject(gid) == \E i \in DOMAIN TaskData(gid).projects :
                     TaskData(gid).projects[i] = REPAIR_PROJECT_ID

\* The calls of the k-th process_repair_request run of the request: from its
\* invocation to its return
RunStarts == {i \in DOMAIN last.calls : last.calls[i].op = "process_repair_request"}
RunEnd(i) == CHOOSE j \in DOMAIN last.calls :
               /\ j > i /\ last.calls[j].op = "return"
               /\ \A k \in (i + 1)..(j - 1) : last.calls[k].op # "return"
RunCalls(i) == SubSeq(last.calls, i + 1, RunEnd(i) - 1)
\* The calls of the session with the mail transport
EmailOps == {smtp_steps[k] : k \in DOMAIN smtp_steps}
SideEffectOps == {"tasks.update", "tasks.create_subtask_for_task"} \cup EmailOps
WriteOps == SideEffectOps \cup {"stories.create_on_task"}
OpsOf(cs) == {cs[k].op : k \in DOMAIN cs}

(***************************** claims **************************************)

\* C1 (as stated): an Armed receiver answers 401 to every POST without the handshake
\* header whose X-Hook-Signature differs from the digest of the body under the stored
\* secret; nothing is processed and the secret stays.
C1_BadSignature401 ==
  (Delivery /\ Armed(last.before) /\ HasSignature
     /\ last.req.headers[HOOK_SIGNATURE] # ExpectedSignature)
  => (last.status = 401 /\ NoProcessing /\ SecretUnchanged)

\* C2 (as stated): while Armed, a POST with neither X-Hook-Secret nor
\* X-Hook-Signature is answered 401 and none of its events is processed.
C2_MissingSignature401 ==
  (Delivery /\ Armed(last.before) /\ ~HasSignature)
  => (last.status = 401 /\ NoProcessing)

\* C3 (as stated): once a handshake stored S, a POST signed with the digest of its
\* body under S is not answered 401, and its events are processed when it parses.
C3_SignedAccepted ==
  (Delivery /\ SignedWithStored)
  => (last.status # 401 /\ (Parses /\ ~last.raised => Len(Fetched) >= 1 \/ TriggerGids = << >>))

\* C4 (as stated): every request to /webhook that carries X-Hook-Secret, GET or POST,
\* stores the header value, overwriting the previous one, and is answered 200 with
\* the value echoed in X-Hook-Secret.
C4_HandshakeAnyMethod ==
  (OnWebhook /\ HasSecretHeader)
  => /\ last.status = 200
     /\ Armed(last.after)
     /\ last.after["secret"] = last.req.headers[HOOK_SECRET]
     /\ HOOK_SECRET \in DOMAIN last.headers
     /\ last.headers[HOOK_SECRET] = last.req.headers[HOOK_SECRET]


RunStart(i) == last.calls[i]
RunReturn(i) == last.calls[RunEnd(i)]
\* The runs on a task that carried a committed marker when the run was started
MarkedRuns == {i \in RunStarts : RunStart(i).arg = "marked"}

\* C5 (as stated): a process_repair_request call on a task that already carries a
\* committed marker scans first, returns skipped, and issues no rename, sub-task
\* creation, email send or comment write.
C5_MarkedRunSkipped ==
  Done => \A i \in MarkedRuns :
            /\ RunCalls(i) # << >> /\ RunCalls(i)[1].op = "stories.find_by_task"
            /\ RunReturn(i).arg = "skipped"
            /\ OpsOf(RunCalls(i)) \cap WriteOps = {}

\* C6 (as stated): an authentic delivery whose body parses is answered 200 whatever
\* happens to its events.
C6_ParsedDelivery200 ==
  (Authentic /\ Parses) => last.status = 200

\* C7 (as stated): every added/task event of an authentic, parsed envelope is
\* fetched, also after the handling of an earlier event failed.
C7_SiblingsAttempted ==
  (Authentic /\ Parses) => GidsOf(Fetched) = TriggerGids

\* C8 (as stated): a task outside REPAIR_PROJECT_ID is never dispatched to
\* process_repair_request by the webhook.
C8_OnlyProjectTasks ==
  Done => \A k \in DOMAIN Dispatched : InProject(Dispatched[k].gid)

\* C9: only events with action "added" and resource type "task" trigger work: the
\* handler's fetches are, in order, those of such events; only fetched tasks are
\* classified, only classified tasks are dispatched, and every other remote call is
\* made inside a dispatched run.
C9_OnlyAddedTasksTrigger ==
  OnWebhook =>
    /\ IsPrefix(GidsOf(Fetched), TriggerGids)
    /\ GidsOf(Classified) = GidsOf(SelectSeq(Fetched, LAMBDA c : c.ok))
    /\ \A k \in DOMAIN Dispatched : \E j \in DOMAIN Classified :
          Classified[j].gid = Dispatched[k].gid
    /\ \A k \in DOMAIN last.calls :
          \/ last.calls[k].by = "webhook"
          \/ \E i \in RunStarts : i < k /\ k < RunEnd(i)
    /\ Len(Calls("return", "webhook")) = Len(Dispatched)
    /\ (TriggerGids = << >> => NoProcessing)

C9_Witness ==
  /\ Delivery /\ last.status = 200
  /\ \E k \in DOMAIN Envelope : Envelope[k].action = "changed"
  /\ \E k \in DOMAIN Envelope : IsTrigger(Envelope[k])
  /\ Len(Fetched) = 1 /\ Len(Dispatched) = 1

\* C10: a delivery that is past the signature check with a body that is not JSON
\* is answered 500 by the handler itself (no exception leaves it); nothing is
\* processed and the stored secret stays as it was.
C10_MalformedBody500 ==
  (PastGate /\ ~Parses)
  => (last.status = 500 /\ ~last.raised /\ NoProcessing /\ SecretUnchanged)

C10_Witness ==
  PastGate /\ SignedRight /\ ~Parses /\ last.status = 500 /\ last.after = last.before

\* The same body delivered to the same application in the same upstream state,
\* with the same calls failing, but Armed with "s1" and signed with the digest of
\* the body under "s1", and handled with no other request beside it
SignedTwin ==
  Handle(impl, store_secret(last.before, "s1"),
         Context(last.remoteBefore, "", << >>, Whole),
         [last.req EXCEPT !.headers = [h \in {HOOK_SIGNATURE} |->
                                        hexdigest("s1", last.req.data)]],
         last.faults)

\* C11 (as stated): while no secret was ever stored, a POST without X-Hook-Signature
\* whose body parses is answered 200, and its events are fetched, classified and
\* dispatched exactly as those of the same delivery correctly signed (compared
\* for a delivery handled with no other request beside it).
C11_UnarmedUnsignedAccepted ==
  (Delivery /\ ~Armed(last.before) /\ ~HasSignature /\ Parses)
  => /\ last.status = 200
     /\ last.alone => /\ last.calls = SignedTwin.ctx.calls
                      /\ remote = SignedTwin.ctx.remote

\* The calls of one kind among cs, and what a run created as sub-tasks
OpCalls(cs, op) == SelectSeq(cs, LAMBDA c : c.op = op)
CreatedNames(cs) ==
  {c.arg : c \in {cs[k] : k \in {j \in DOMAIN cs :
                     cs[j].op = "tasks.create_subtask_for_task" /\ cs[j].ok}}}
Creates(cs, step) == \E n \in CreatedNames(cs) : Contains(n, step)
EmergencySteps == { "Immediate safety check", "Expedite emergency response" }
PlumbingSteps ==
  {REPAIR_CATEGORIES("Plumbing").subtypes[k] :
     k \in DOMAIN REPAIR_CATEGORIES("Plumbing").subtypes}
\* The runs of the request on T1 (repair project, Plumbing, Emergency), not yet marked
UnmarkedT1Runs ==
  {i \in RunStarts : RunStart(i).gid = "T1" /\ RunStart(i).arg = "unmarked"}

\* C12 (as stated): when every remote call succeeds, a webhook run on the unmarked task T1
\* (no other request being handled beside it) renames it once to
\* "(shower) Plumbing - {address}", creates the Plumbing checklist with the two
\* emergency steps, sends exactly one email and writes exactly one marker comment.
C12_EmergencyPlumbingRun ==
  (Delivery /\ last.faults = {} /\ last.alone) =>
    \A i \in UnmarkedT1Runs :
      LET cs == RunCalls(i) IN
      /\ Len(OpCalls(cs, "tasks.update")) = 1
      /\ OpCalls(cs, "tasks.update")[1].arg
            = "(shower) Plumbing - "
                \o extract_repair_details(TaskRecord(last.remoteBefore, "T1")).address
      /\ \A step \in PlumbingSteps \cup EmergencySteps : Creates(cs, step)
      /\ Len(OpCalls(cs, "smtp.send_message")) = 1
      /\ Len(OpCalls(cs, "stories.create_on_task")) = 1
      /\ OpCalls(cs, "stories.create_on_task")[1].arg \in Markers

\* The fields of the probed task whose name contains the logical name, case-insensitively
SubstringHits ==
  {i \in DOMAIN probe.task.custom_fields :
     Contains(Lower(probe.task.custom_fields[i].name), Lower(probe.field_name))}

\* C13 (as stated): get_task_field_value matches by case-insensitive substring: asked for
\* "urgency" on a task whose only matching field is "Urgency Level" = Emergency (enum)
\* it returns "Emergency"; on a task without a field whose name contains the
\* logical name it returns None.
C13_SubstringMatch ==
  probe.function = "get_task_field_value" =>
    /\ SubstringHits = {} => probe.result = None
    /\ ( /\ probe.field_name = "urgency"
         /\ SubstringHits # {}
         /\ \A i \in SubstringHits :
               probe.task.custom_fields[i] = EnumField("Urgency Level", "Emergency") )
       => probe.result = "Emergency"

\* The six keywords of the specification, and the classification it describes
SixKeywords == { "repair", "fix", "broken", "not working", "problem", "maintenance" }
HeuristicClass(task) ==
  \/ AnyFieldNamed(task, {"category", "issue"}) /\ AnyFieldNamed(task, {"urgency", "priority"})
  \/ \E k \in SixKeywords :
        Contains(Lower(task.name), k) \/ Contains(Lower(task.notes), k)

\* C14 (as stated): for a task of the repair project, is_repair_form_task is true exactly
\* when its field names hold a category-like and an urgency-like token, or its
\* name or notes hold one of the six keywords.
C14_ClassifierExact ==
  ( /\ probe.function = "is_repair_form_task"
    /\ probe.task.projects = <<REPAIR_PROJECT_ID>> )
  => (probe.result <=> HeuristicClass(probe.task))


\* C15 (as stated): a GET to /webhook without X-Hook-Secret is answered 200 with the
\* static liveness text, processes no event and leaves the stored secret as it
\* was, Armed or not.
C15_LivenessProbe ==
  (OnWebhook /\ last.req.method = "GET" /\ ~HasSecretHeader)
  => /\ last.status = 200
     /\ last.body = "Webhook Endpoint is Accessible"
     /\ NoProcessing
     /\ SecretUnchanged

\* A step of a run succeeded: it made its remote calls and none of them failed
StepOk(cs, op) ==
  OpCalls(cs, op) # << >> /\ \A k \in DOMAIN OpCalls(cs, op) : OpCalls(cs, op)[k].ok
\* The email step of a run was attempted (the session with the mail transport was
\* opened), and it succeeded (send_email_notification returned True: every call
\* of the session was made and returned)
EmailAttempted(cs) == OpCalls(cs, "smtp.connect") # << >>
EmailOk(cs) == \A op \in EmailOps : StepOk(cs, op)

\* C16 (as stated): a process_repair_request call that is not skipped returns the value of
\* success (True) only when the sub-task step and the email step both succeeded,
\* and a skipped call does not return the value of success.
C16_OutcomeReported ==
  Done => \A i \in RunStarts :
            /\ (RunReturn(i).arg # "skipped" /\ RunReturn(i).ok)
                 => /\ StepOk(RunCalls(i), "tasks.create_subtask_for_task")
                    /\ EmailOk(RunCalls(i))
            /\ RunReturn(i).arg = "skipped" => ~RunReturn(i).ok

\* The runs of process_repair_request of repair_workflow.py: those the webhook of
\* server.py dispatches
RepairWorkflowRuns == {i \in RunStarts : impl = "server" /\ RunStart(i).by = "webhook"}

\* The marker appends of a run, the runs whose marker append failed, and the
\* runs that follow a run on the same task within the request
MarkerWrites(cs) ==
  SelectSeq(cs, LAMBDA c : c.op = "stories.create_on_task" /\ c.arg \in Markers)
MarkerFailedRuns ==
  {i \in RunStarts : /\ MarkerWrites(RunCalls(i)) # << >>
                     /\ ~MarkerWrites(RunCalls(i))[1].ok}
LaterRuns(i) == {j \in RunStarts : j > i /\ RunStart(j).gid = RunStart(i).gid}
NextRun(i) == CHOOSE j \in LaterRuns(i) : \A k \in LaterRuns(i) : j <= k
\* The run is not skipped and goes through the workflow: after its scan it renames,
\* and after the rename it creates sub-tasks, opens the mail session and appends a
\* marker
RunsAgain(j) ==
  /\ RunReturn(j).arg # "skipped"
  /\ RunCalls(j) # << >> /\ RunCalls(j)[1].op = "stories.find_by_task"
  /\ RunCalls(j)[1].ok => OpCalls(RunCalls(j), "tasks.update") # << >>
  /\ StepOk(RunCalls(j), "tasks.update")
       => /\ OpCalls(RunCalls(j), "tasks.create_subtask_for_task") # << >>
          /\ EmailAttempted(RunCalls(j))
          /\ MarkerWrites(RunCalls(j)) # << >>
\* The runs of repair_workflow.py whose scan returned, and what the scan was given
ScannedRuns ==
  {i \in RepairWorkflowRuns : RunCalls(i) # << >> /\ RunCalls(i)[1].ok}
ScanSaw(i) == RunCalls(i)[1].seen
\* The comments a run appended
CommentsOf(i) ==
  {RunCalls(i)[k].arg : k \in {j \in DOMAIN RunCalls(i) :
                                 RunCalls(i)[j].op = "stories.create_on_task" /\ RunCalls(i)[j].ok}}

\* The extraction of the details of the task of the run raises (a name-like text
\* field without a value): the run ends in its except branch before the rename
ExtractionRaises(i) ==
  extract_repair_details(TaskRecord(last.remoteBefore, RunStart(i).gid)).raised

\* C17: the marker append is the commit point.  The scan recognises committed
\* markers only, never the error note: a run is skipped exactly when the stories
\* its scan was given hold a committed marker.  A run whose marker append failed
\* leaves no comment the scan recognises; unless another request marked the task
\* meanwhile, the task is left without a recognised marker and the next run on it
\* is not skipped but goes through the workflow again.  (Every run that is not
\* skipped goes through the workflow, unless the extraction of its task raises: such
\* a run never gets to a marker append.)
C17_MarkerIsCommitPoint ==
  Done =>
    /\ \A g \in Gids : AlreadyProcessed(remote, g) <=> HasMarker(remote, g)
    /\ \A i \in ScannedRuns :
          /\ AlreadyProcessed(ScanSaw(i), RunStart(i).gid)
               <=> HasMarker(ScanSaw(i), RunStart(i).gid)
          /\ RunReturn(i).arg = "skipped" <=> HasMarker(ScanSaw(i), RunStart(i).gid)
          /\ (RunReturn(i).arg # "skipped" /\ ~ExtractionRaises(i)) => RunsAgain(i)
          /\ ExtractionRaises(i) => /\ MarkerWrites(RunCalls(i)) = << >>
                                    /\ i \notin MarkerFailedRuns
    /\ \A i \in MarkerFailedRuns :
          /\ \A text \in CommentsOf(i) : ~Contains(text, MarkerProbe)
          /\ last.alone =>
               /\ LaterRuns(i) = {} => ~AlreadyProcessed(remote, RunStart(i).gid)
               /\ LaterRuns(i) # {} => /\ RunStart(NextRun(i)).arg = "unmarked"
                                       /\ RunsAgain(NextRun(i))

\* A run whose marker append failed wrote the error note instead, and the next run
\* on the same task went through the whole workflow and committed its marker
C17_Witness ==
  /\ Delivery
  /\ \E i \in MarkerFailedRuns :
        /\ ErrorNoteText(ErrorText) \in CommentsOf(i)
        /\ LaterRuns(i) # {}
        /\ RunsAgain(NextRun(i))
        /\ StepOk(RunCalls(NextRun(i)), "tasks.create_subtask_for_task")
        /\ EmailOk(RunCalls(NextRun(i)))
        /\ MarkerWrites(RunCalls(NextRun(i)))[1].ok
        /\ HasMarker(remote, RunStart(i).gid)

\* The runs of the request whose rename call failed
RenameFailedRuns ==
  {i \in RunStarts : /\ OpCalls(RunCalls(i), "tasks.update") # << >>
                     /\ ~OpCalls(RunCalls(i), "tasks.update")[1].ok}

\* C19 (as stated): the rename is best-effort: a run whose tasks.update call failed still
\* creates the checklist sub-tasks, attempts the email and appends the marker.
C19_RenameBestEffort ==
  Done => \A i \in RenameFailedRuns :
            /\ OpCalls(RunCalls(i), "tasks.create_subtask_for_task") # << >>
            /\ EmailAttempted(RunCalls(i))
            /\ MarkerWrites(RunCalls(i)) # << >>

\* The sub-task creations of a run, and the items its checklist holds: the
\* creations the run makes when none of them fails
Creations(i) == OpCalls(RunCalls(i), "tasks.create_subtask_for_task")
ChecklistLength(i) ==
  IF RunStart(i).by = "webhook" /\ impl = "server"
    THEN Len(rw_category_info(
               extract_repair_details(TaskRecord(last.remoteBefore, RunStart(i).gid))
                 .issue_category).subtypes)
    ELSE Len(base_subtasks(Or(main_get_task_field_value(
                                 TaskRecord(last.remoteBefore, RunStart(i).gid),
                                 "Urgency Level"), "Standard")))
         + Len(main_category_subtasks(Or(main_get_task_field_value(
                                 TaskRecord(last.remoteBefore, RunStart(i).gid),
                                 "Issue Category"), "Other")))
         + Len(suffix_subtasks)

\* C20 (as stated): the sub-task creations of a run are independent: when one of them fails,
\* a creation is still attempted for every item of the checklist.
C20_CreationsIndependent ==
  Done => \A i \in RunStarts :
            (\E k \in DOMAIN Creations(i) : ~Creations(i)[k].ok)
              => Len(Creations(i)) = ChecklistLength(i)

\* Two handlers at once: how often a sub-task name, a mail or a marker is found
\* on a task
Occurrences(seq, x) == Cardinality({k \in DOMAIN seq : seq[k] = x})
MarkerCount(g) == Cardinality({k \in DOMAIN remote.stories[g] : remote.stories[g][k] \in Markers})
ChecklistOf(g) ==
  LET info == rw_category_info(extract_repair_details(TaskRecord(RemoteInit, g)).issue_category)
  IN  {info.emoji \o " " \o info.subtypes[k] : k \in DOMAIN info.subtypes}

\* C18: nothing but a committed marker stops a concurrent run.  A run is skipped
\* only when the stories its scan was given hold a marker; every run that got
\* past its scan adds its own sub-tasks, email and marker to those of the other:
\* when both deliveries are answered and no call failed, the task has every
\* checklist item and an email once for each marker, twice when both runs got
\* past the scan before either marker was written.
C18_ConcurrentRunsDuplicate ==
  /\ Done => \A i \in ScannedRuns :
               RunReturn(i).arg = "skipped" => HasMarker(ScanSaw(i), RunStart(i).gid)
  /\ \A g \in Gids :
        (Quiet /\ inflight.failures = 0) =>
          /\ MarkerCount(g) <= 2
          /\ \A item \in ChecklistOf(g) :
                Occurrences(remote.subtasks[g], item) = MarkerCount(g)
          /\ Occurrences(remote.outbox, g) = MarkerCount(g)

\* The interleaving of the claim: the run answered last scanned T1 before any
\* marker was written and so did the other; no call failed, and T1 has each
\* checklist item twice, two emails and two markers
C18_Witness ==
  /\ Done /\ Quiet /\ delivered = 2
  /\ inflight.failures = 0
  /\ ~last.alone
  /\ \E i \in ScannedRuns : RunStart(i).gid = "T1" /\ ~HasMarker(ScanSaw(i), "T1")
                             /\ RunReturn(i).arg = "processed"
  /\ \A item \in ChecklistOf("T1") : Occurrences(remote.subtasks["T1"], item) = 2
  /\ remote.outbox = <<"T1", "T1">>
  /\ MarkerCount("T1") = 2

\* C21 (as stated): the sub-task flag of the marker a run writes is the check mark only if
\* every creation of the run succeeded; with a failed creation it is the cross.
C21_AggregateSubtaskFlag ==
  Done => \A i \in RunStarts :
            MarkerWrites(RunCalls(i)) # << >>
              => \E email_result \in BOOLEAN :
                    MarkerWrites(RunCalls(i))[1].arg
                      = MarkerText(StepOk(RunCalls(i), "tasks.create_subtask_for_task"),
                                   email_result)

\* The places of the calls of one kind within a run
Places(cs, op) == {k \in DOMAIN cs : cs[k].op = op}

\* C22 (as stated): every run that is not skipped dispatches the notification exactly once,
\* after its sub-task creations and whatever their results; a failing email
\* transport does not end the run by an exception: the marker is still written.
C22_EmailDispatchedOnce ==
  Done => \A i \in RunStarts :
            RunReturn(i).arg # "skipped"
              => /\ Cardinality(Places(RunCalls(i), "smtp.connect")) = 1
                 /\ \A e \in Places(RunCalls(i), "smtp.connect") :
                       \A c \in Places(RunCalls(i), "tasks.create_subtask_for_task") : c < e
                 /\ ~EmailOk(RunCalls(i)) => MarkerWrites(RunCalls(i)) # << >>

\* C23 (as stated): the stored secret changes only by a request to /webhook that carries
\* X-Hook-Secret, which sets it to the value of the header; every other request,
\* to whatever endpoint, leaves it as it was.
C23_SecretOnlyByHandshake ==
  Done => IF OnWebhook /\ HasSecretHeader
            THEN last.after = store_secret(last.before, last.req.headers[HOOK_SECRET])
            ELSE SecretUnchanged

\* The answer of the handler to the delivery being verified when it runs alone
\* on the stored secret s
AloneOn(s) ==
  post_branch(impl, s, Context(remote, "webhook", << >>, Whole),
              Request("POST", [h \in {HOOK_SIGNATURE} |-> verifying.signature], SignedBody),
              Returns).status

\* C24: a signed delivery verified beside handshakes uses one value of the stored
\* secret, one that WEBHOOK_SECRET held while the delivery was being handled, for
\* the presence test and for the HMAC alike, and is answered as it would be when
\* handled alone on that value.
C24_SingleSecretRead ==
  verifying.pc = "done" =>
    /\ verifying.tested # "" => verifying.key = verifying.tested
    /\ \E s \in verifying.held :
          /\ verifying.tested = stored_secret(s)
          /\ verifying.status = AloneOn(s)

\* A handshake replaced the secret between the read and the HMAC of a delivery; the
\* delivery was accepted on the value it had read
C24_Witness ==
  /\ verifying.pc = "done"
  /\ verifying.status = 200
  /\ Cardinality(verifying.held) >= 2
  /\ verifying.key = verifying.tested
  /\ stored_secret(WEBHOOK_SECRET) # verifying.tested

\* The markers among the stories of a task
MarkersOn(rem, g) == Cardinality({k \in DOMAIN rem.stories[g] : rem.stories[g][k] \in Markers})

\* A delivery being handled is in its workflow on g: its scan returned stories
\* without a marker
PastScan(w, g) ==
  /\ inflight.run[w].pc = "running"
  /\ \E k \in DOMAIN inflight.run[w].calls :
        LET c == inflight.run[w].calls[k]
        IN  c.op = "stories.find_by_task" /\ c.gid = g /\ c.ok /\ ~HasMarker(c.seen, g)

\* The task carries a marker and every delivery for it that scanned before the
\* marker was committed has been answered
Settled(g) == HasMarker(remote, g) /\ \A w \in Workers : ~PastScan(w, g)

\* C25 (as stated): under redelivery every task of the repair project converges.  While the platform keeps delivering
\* the added-event of a task and the remote calls succeed from some time on, a
\* marker is eventually committed on the task; from then on the deliveries for
\* it add no sub-task, no email and no marker: once the task carries a marker, only
\* a delivery that had scanned it before the marker was committed still adds its
\* own, the task settles when those are answered, and stays settled.
C25_ConvergesUnderRedelivery ==
  /\ \A g \in RedeliveredGids : [](impl = "server" => <>HasMarker(remote, g))
  /\ \A g \in RedeliveredGids : impl = "server" => <>[]Settled(g)
  /\ [][\A g \in Gids :
          Settled(g)
            => /\ remote'.subtasks[g] = remote.subtasks[g]
               /\ Occurrences(remote'.outbox, g) = Occurrences(remote.outbox, g)
               /\ MarkersOn(remote', g) = MarkersOn(remote, g)]_vars

\* The checklist of the specification: base steps, the two emergency steps after
\* the first base step when the urgency is Emergency, the steps of the category,
\* the four closing steps
ExpectedBase(urgency) ==
  IF urgency = "Emergency"
    THEN <<"Initial assessment", "Immediate safety check", "Expedite emergency response",
           "Contact tenant to confirm details", "Schedule inspection">>
    ELSE <<"Initial assessment", "Contact tenant to confirm details", "Schedule inspection">>
ExpectedSuffix ==
  <<"Procure necessary resources", "Execute repair", "Verify repair completion",
    "Follow up with tenant">>
CategorySteps(category) == REPAIR_CATEGORIES(category).subtypes
\* The step a created sub-task stands for: its name without the tag of a category
Tags == {REPAIR_CATEGORIES(c).emoji \o " " : c \in CategoryKeys}
StepOf(name) ==
  IF \E t \in Tags : SubSeq(name, 1, Len(t)) = t
    THEN LET t == CHOOSE t \in Tags : SubSeq(name, 1, Len(t)) = t
         IN  SubSeq(name, Len(t) + 1, Len(name))
  ELSE name
StepsOf(names) == [k \in DOMAIN names |-> StepOf(names[k])]

\* The creation step has returned and none of its creations raised
ChecklistCreated ==
  /\ probe.function = "create_subtasks"
  /\ probe.pc = "returned"
  /\ FailedCalls(probe.calls) = {}

\* C26 (as stated): for every category of the catalog and every urgency, the sub-tasks
\* created are, in order, the base steps (with the two emergency steps after the
\* first one exactly when the urgency is Emergency), the steps of the category and
\* the four closing steps.
C26_ChecklistSequence ==
  (ChecklistCreated /\ probe.task.category \in CategoryKeys)
  => StepsOf(probe.result)
       = ExpectedBase(probe.task.urgency) \o CategorySteps(probe.task.category)
           \o ExpectedSuffix

\* C27 (as stated): for a category that is no key of the catalog the checklist holds the
\* step of the entry Other, "Other maintenance issue".
C27_UnknownCategoryIsOther ==
  (ChecklistCreated /\ probe.task.category \notin CategoryKeys)
  => \E k \in DOMAIN probe.result : StepsOf(probe.result)[k] = "Other maintenance issue"

\* The attributes of the Repair Request Details
Attributes ==
  {"first_name", "last_name", "email", "phone", "address", "unit_number",
   "urgency_level", "issue_category", "specific_issue", "description"}

\* C28 (as stated): for every task record the extraction returns, and every attribute of the
\* details it returns is non-null.
C28_DetailsNonNull ==
  probe.function = "extract_repair_details"
  => /\ ~probe.result.raised
     /\ \A a \in Attributes : probe.result[a] # None

\* The field carries no value of its type
Absent(field) ==
  CASE field.type = "text" -> field.text_value = None
    [] field.type = "enum" -> field.enum_value = None
    [] field.type = "multi_enum" -> field.enum_values = << >>
    [] field.type = "number" -> field.number_value = None

\* C29 (as stated): get_task_field_value returns None when the task has no field whose name
\* matches the logical name, and when every field that matches carries no value,
\* whatever its type.
C29_AbsentValueIsNull ==
  ( /\ probe.function = "get_task_field_value"
    /\ \A i \in SubstringHits : Absent(probe.task.custom_fields[i]) )
  => probe.result = None

\* The first of a set of field positions, and the task with the fields after a
\* position left out
FirstOf(S) == CHOOSE i \in S : \A j \in S : i <= j
UpTo(task, i) == [task EXCEPT !.custom_fields = SubSeq(@, 1, i)]
\* The fields extract_repair_details takes for the category and for the urgency
CategoryLike(task) ==
  {i \in DOMAIN task.custom_fields :
     \/ Contains(Lower(task.custom_fields[i].name), "category")
     \/ Contains(Lower(task.custom_fields[i].name), "issue")}
UrgencyLike(task) ==
  {i \in DOMAIN task.custom_fields \ CategoryLike(task) :
     \/ Contains(Lower(task.custom_fields[i].name), "urgency")
     \/ Contains(Lower(task.custom_fields[i].name), "priority")}

\* C30 (as stated): the first matching field decides.  The result of get_task_field_value is
\* the one it gives when the fields after the first matching field are left out
\* (the first field whose name contains the logical name, here bearing exactly
\* that name); so are the category and the urgency of extract_repair_details
\* with respect to the first category-like and the first urgency-like field.
C30_FirstMatchWins ==
  /\ ( /\ probe.function = "get_task_field_value"
       /\ SubstringHits # {}
       /\ probe.task.custom_fields[FirstOf(SubstringHits)].name = probe.field_name )
     => probe.result
          = get_task_field_value(impl, UpTo(probe.task, FirstOf(SubstringHits)),
                                 probe.field_name)
  /\ ( /\ probe.function = "extract_repair_details"
       /\ impl = "server"
       /\ ~probe.result.raised )
     => /\ CategoryLike(probe.task) # {}
             => probe.result.issue_category
                  = extract_repair_details(UpTo(probe.task, FirstOf(CategoryLike(probe.task))))
                      .issue_category
        /\ UrgencyLike(probe.task) # {}
             => probe.result.urgency_level
                  = extract_repair_details(UpTo(probe.task, FirstOf(UrgencyLike(probe.task))))
                      .urgency_level

\* The places of the marker writes within a run, of its rename, sub-task
\* creations and mail calls, and of all its writes
MarkerPlaces(cs) ==
  {k \in DOMAIN cs : cs[k].op = "stories.create_on_task" /\ cs[k].arg \in Markers}
SideEffectPlaces(cs) == {k \in DOMAIN cs : cs[k].op \in SideEffectOps}
WritePlaces(cs) == {k \in DOMAIN cs : cs[k].op \in WriteOps}

\* Before place m of the run: the scan first of all, then the rename, a creation
\* attempt for every item of the checklist, and the email attempt
StepsCompletedBefore(i, m) ==
  /\ \E u \in Places(RunCalls(i), "tasks.update") : u < m /\ RunCalls(i)[u].ok
  /\ Cardinality({c \in Places(RunCalls(i), "tasks.create_subtask_for_task") : c < m})
       = ChecklistLength(i)
  /\ \E e \in Places(RunCalls(i), "smtp.connect") : e < m

\* C31: in every run of process_repair_request of repair_workflow.py the steps are
\* ordered.  The marker scan is the first call of the run and precedes every write
\* (rename, sub-task creation, email send, comment); the marker is written only
\* after the rename, a creation attempt for every checklist item and the email
\* attempt; no rename, sub-task creation or email send follows the marker write.
C31_StepsOrdered ==
  Done => \A i \in RepairWorkflowRuns :
            /\ RunCalls(i) # << >> /\ RunCalls(i)[1].op = "stories.find_by_task"
            /\ \A e \in WritePlaces(RunCalls(i)) : 1 < e
            /\ \A m \in MarkerPlaces(RunCalls(i)) :
                  /\ StepsCompletedBefore(i, m)
                  /\ \A e \in SideEffectPlaces(RunCalls(i)) : e < m

\* A run that wrote its marker although one creation failed: the attempts were all
\* made before the marker write
C31_Witness ==
  /\ Delivery /\ impl = "server"
  /\ \E i \in RepairWorkflowRuns :
        /\ MarkerPlaces(RunCalls(i)) # {}
        /\ \A m \in MarkerPlaces(RunCalls(i)) : RunCalls(i)[m].ok /\ m = Len(RunCalls(i))
        /\ \E c \in Places(RunCalls(i), "tasks.create_subtask_for_task") :
              ~RunCalls(i)[c].ok
        /\ ChecklistLength(i) > 1

\* The signature check finds no secret: WEBHOOK_SECRET.get('secret', '') is falsy
TreatsSecretAsAbsent(store) == stored_secret(store) = ""

\* C32 (as stated): once Armed, always Armed.  When the receiver held a secret that its
\* signature check accepts as present, then after the next request, whatever it is
\* (a re-handshake with any header value included), the check still finds a secret.
C32_ArmedStaysArmed ==
  (Done /\ ~TreatsSecretAsAbsent(last.before)) => ~TreatsSecretAsAbsent(last.after)

\* C33: a request to /webhook that carries X-Hook-Secret never dispatches events.
\* Whatever its body holds, the handler fetches no task, runs neither the classifier
\* nor process_repair_request and makes no remote call; nothing but the stored
\* secret can differ afterwards.
C33_HandshakeDispatchesNothing ==
  (OnWebhook /\ HasSecretHeader)
  => /\ Fetched = << >> /\ Classified = << >> /\ Dispatched = << >>
     /\ NoProcessing
     /\ last.after \in {last.before,
                        store_secret(last.before, last.req.headers[HOOK_SECRET])}

\* A POST handshake whose body holds a qualifying event for a task of the repair
\* project: the secret was stored, the event was not dispatched
C33_Witness ==
  /\ OnWebhook /\ HasSecretHeader /\ last.req.method = "POST"
  /\ Parses /\ TriggerGids = <<"T1">> /\ InProject("T1")
  /\ last.status = 200 /\ NoProcessing
  /\ last.after # last.before
  /\ last.after["secret"] = last.req.headers[HOOK_SECRET]
  /\ remote = last.remoteBefore

\* C34: while no secret is stored, a POST that carries X-Hook-Signature is answered
\* 401 whatever the signature is (a digest under any key, or not a digest at all);
\* none of its events is processed and nothing is stored.  Only a delivery without
\* the signature header gets past the check while Unarmed.
C34_UnarmedSignedRejected ==
  /\ (Delivery /\ ~Armed(last.before) /\ HasSignature)
       => (last.status = 401 /\ ~last.raised /\ NoProcessing /\ SecretUnchanged)
  /\ (Delivery /\ ~Armed(last.before) /\ last.status # 401) => ~HasSignature

\* An Unarmed receiver got a delivery signed with the digest of its body under the
\* empty key, holding a qualifying event, and answered 401
C34_Witness ==
  /\ Delivery /\ ~Armed(last.before) /\ HasSignature
  /\ last.req.headers[HOOK_SIGNATURE] = hexdigest("", last.req.data)
  /\ Parses /\ TriggerGids # << >>
  /\ last.status = 401 /\ NoProcessing
====
